---- MODULE Spec2Model ----
(***************************************************************************)
(* Goal Bingo (src/src/App.tsx, second App component, lines 1501-2650):    *)
(* the board store, the bingo detection effect, the local persistence      *)
(* effect and the remote (Firestore) synchronisation effects, as a state   *)
(* machine.                                                                *)
(*                                                                         *)
(* One action is one event handler or callback together with the React     *)
(* commit that follows it: the render and every useEffect whose            *)
(* dependencies changed, repeated until no effect sets state any more      *)
(* (operator Settle).  The 50 ms timer of the snapshot callback and the    *)
(* resolution of a remote write are actions of their own.                  *)
(*                                                                         *)
(* Array indices are 0-based in the source and 1-based here: cell index i  *)
(* of the source is goals[i + 1].  null / undefined ids are Null, a        *)
(* null object is the empty sequence, an object is a one-element sequence. *)
(***************************************************************************)
EXTENDS Integers, Sequences, FiniteSets, TLC

\* ------------------------------------------------------------------ bounds
\* boards the user may create (generate / accept a shared board) in one run
MaxBoards == 1
\* pending 50 ms timers / snapshot emissions in flight at a time
MaxTimers == 2
\* remote writes dispatched and not yet resolved
MaxPending == 2
\* cells of a board the user taps (see TapOrder)
MaxTaps == 6
\* leading draft cells the user drags while rearranging
MaxDrag == 2
\* ids drawn from safeRandomId() in one run
MaxIds == 4
\* subgoals of a subgoal modal the user adds up to
MaxSubgoals == 3
\* lists up to this length are shuffled into every permutation
MaxPermute == 2
\* custom goals the user adds in a run
MaxLibrary == 2
\* document subscriptions opened in a session
MaxSubscriptions == 2

\* ------------------------------------------------------- program constants
Null == 0
STORAGE_KEY == "bingo-board-v2"
LEGACY_STORAGE_KEY == "bingo-board-v1"
Frequencies == {"daily", "weekly", "monthly", "yearly"}
LibrarySources == {"suggested", "custom", "generated"}
BoardSizes == {3, 4, 5}
defaultBoardSizeByFrequency ==
  [daily |-> 3, weekly |-> 3, monthly |-> 4, yearly |-> 5]

isFrequency(value) == value \in Frequencies
isLibrarySource(value) == value \in LibrarySources
isBoardSize(value) == value \in BoardSizes
\* typeof value === 'boolean', on the JSON text of the value
isBooleanText(value) == value \in {"true", "false"}
BoolOfText(value) == value = "true"
TextOfBool(b) == IF b THEN "true" ELSE "false"

\* ----------------------------------------------------------------- helpers
Min(S) == CHOOSE x \in S : \A y \in S : x <= y
Range(seq) == {seq[i] : i \in DOMAIN seq}
\* (the concatenation makes TLC build the sequence once, as a tuple)
SeqMap(Op(_), seq) == [i \in DOMAIN seq |-> Op(seq[i])] \o <<>>
RECURSIVE SeqFilter(_, _)
SeqFilter(seq, keep) ==
  IF seq = <<>> THEN <<>>
  ELSE (IF Head(seq) \in keep THEN <<Head(seq)>> ELSE <<>>) \o SeqFilter(Tail(seq), keep)

\* String.prototype.trim on the texts of the model
Trim(text) ==
  CASE text = " " -> ""
    [] text = " Stretch " -> "Stretch"
    [] OTHER -> text

\* String.prototype.toLowerCase on the texts of the model
toLowerCase(text) ==
  CASE text = "Read" -> "read"
    [] text = "READ" -> "read"
    [] text = "Cook" -> "cook"
    [] text = "Run" -> "run"
    [] text = "Run 3 miles" -> "run 3 miles"
    [] text = "Stretch" -> "stretch"
    [] text = "Warm up" -> "warm up"
    [] text = "Cool down" -> "cool down"
    [] text = "Try a new recipe" -> "try a new recipe"
    [] text = "Review your budget" -> "review your budget"
    [] text = "Deep clean one room" -> "deep clean one room"
    [] OTHER -> text

\* `${frequency}:${text.trim().toLowerCase()}`
getGoalKey(frequency, text) == frequency \o ":" \o toLowerCase(Trim(text))

\* Math.round(Math.sqrt(n)) for n >= 0: the r with (r - 1/2)^2 <= n < (r + 1/2)^2
RoundSqrt(n) == CHOOSE r \in 0..(n + 1) : (2 * r - 1) * (2 * r - 1) <= 4 * n + 1
                                          /\ 4 * n < (2 * r + 1) * (2 * r + 1)

\* -------------------------------------------------------------- data model
MkGoal(id, text, frequency, completed, subgoals, sourceGoalId) ==
  [id |-> id, text |-> text, frequency |-> frequency, completed |-> completed,
   subgoals |-> subgoals, sourceGoalId |-> sourceGoalId]
MkSubgoal(id, text, done) == [id |-> id, text |-> text, done |-> done]
MkBoard(id, title, createdAt, goals, size, celebrated) ==
  [id |-> id, title |-> title, createdAt |-> createdAt, goals |-> goals,
   size |-> size, celebrated |-> celebrated]
MkTemplate(id, text, frequency) == [id |-> id, text |-> text, frequency |-> frequency]

serializeGoal(goal) ==
  [id |-> goal.id, text |-> goal.text, frequency |-> goal.frequency,
   completed |-> goal.completed, subgoals |-> goal.subgoals,
   sourceGoalId |-> goal.sourceGoalId]
serializeBoard(board) ==
  [id |-> board.id, title |-> board.title, createdAt |-> board.createdAt,
   size |-> board.size, celebrated |-> board.celebrated,
   goals |-> SeqMap(serializeGoal, board.goals)]
\* the uiState object as JSON: the boolean becomes its JSON text
serializeUiState(s) ==
  [has |-> {"generationFrequency", "boardSize", "customOnly", "customFrequency",
            "libraryFrequency", "librarySource"},
   generationFrequency |-> s.generationFrequency, boardSize |-> s.boardSize,
   customOnly |-> TextOfBool(s.customOnly), customFrequency |-> s.customFrequency,
   libraryFrequency |-> s.libraryFrequency, librarySource |-> s.librarySource]

getBoardSize(boardOpt) ==
  IF boardOpt = <<>> THEN 5
  ELSE IF boardOpt[1].size # 0 THEN boardOpt[1].size
  ELSE IF RoundSqrt(Len(boardOpt[1].goals)) # 0 THEN RoundSqrt(Len(boardOpt[1].goals))
  ELSE 5

normalizeBoard(board) ==
  [board EXCEPT !.size =
     IF board.size # 0 THEN board.size
     ELSE IF RoundSqrt(Len(board.goals)) # 0 THEN RoundSqrt(Len(board.goals))
     ELSE 5]

normalizeCustomGoals(goals) ==
  [i \in DOMAIN goals |->
     IF goals[i].id # Null THEN goals[i] ELSE [goals[i] EXCEPT !.id = 200000 + i]] \o <<>>

\* ------------------------------------------------------ bingo line evaluator
\* (an enumeration that forgets the anti-diagonal)
getBingoLines_NoAntiDiagonal(size) ==
  [row \in 1..size |-> [col \in 1..size |-> (row - 1) * size + (col - 1)]]
  \o [col \in 1..size |-> [row \in 1..size |-> (row - 1) * size + (col - 1)]]
  \o << [idx \in 1..size |-> (idx - 1) * (size + 1)] >>

getBingoLines(size) ==
  [row \in 1..size |-> [col \in 1..size |-> (row - 1) * size + (col - 1)]]
  \o [col \in 1..size |-> [row \in 1..size |-> (row - 1) * size + (col - 1)]]
  \o << [idx \in 1..size |-> (idx - 1) * (size + 1)] >>
  \o << [idx \in 1..size |-> idx * (size - 1)] >>

\* (a test that does not count an empty tile)
CompletedAt_NotEmptyTile(goals, index) ==
  /\ (index + 1) \in DOMAIN goals
  /\ goals[index + 1].completed /\ goals[index + 1].text # ""

\* goals[index]?.completed
CompletedAt(goals, index) == (index + 1) \in DOMAIN goals /\ goals[index + 1].completed

\* (an evaluator that returns the last fully completed line)
getBingoLine_LastLine(goals, size) ==
  LET lines == getBingoLines(size)
      full == {k \in DOMAIN lines : \A j \in DOMAIN lines[k] : CompletedAt(goals, lines[k][j])}
  IN IF full = {} THEN <<>> ELSE lines[CHOOSE k \in full : \A other \in full : other <= k]

\* the first fully completed line, or <<>> for null
getBingoLine(goals, size) ==
  LET lines == getBingoLines(size)
      full == {k \in DOMAIN lines : \A j \in DOMAIN lines[k] : CompletedAt(goals, lines[k][j])}
  IN IF full = {} THEN <<>> ELSE lines[Min(full)]

hasBingo(goals, size) == getBingoLine(goals, size) # <<>>

\* ------------------------------------------------------ built-in catalog
\* a sample of the suggested goal catalog (ids stand for buildSuggestedId)
suggestedGoals ==
  << MkTemplate(901, "Try a new recipe", "weekly"),
     MkTemplate(902, "Review your budget", "weekly"),
     MkTemplate(903, "Stretch", "daily"),
     MkTemplate(904, "Deep clean one room", "monthly") >>

\* ------------------------------------------------------------------- state
VARIABLES
  state,         \* the useState values of App
  refs,          \* the useRef values: remoteLoaded, applyingRemote, userId, syncing
  localStorage,  \* window.localStorage: key -> stored value
  remote,        \* the build's Firebase config and what is in flight to / from it
  fx,            \* side effects of the last step: tones played, writes dispatched
  nextId,        \* source of safeRandomId() and of new Date()
  lib,           \* an instance of the useGoalLibrary hook: its props, state and memo
  boardHistory   \* the useState values of BoardHistory: importMessage, importError

vars == <<state, refs, localStorage, remote, fx, nextId, lib, boardHistory>>

\* useState<string | null>(null), useState(false); null is <<>>, a message
\* m is << m >>
BoardHistoryInitial == [importMessage |-> <<>>, importError |-> FALSE]

StorageKeys == {STORAGE_KEY, LEGACY_STORAGE_KEY}
\* the hook before its first render
Unmounted == [mounted |-> FALSE]
Absent == [kind |-> "absent"]

\* the values of the useState hooks at construction (lines 1703-1742)
InitialState(isFirebaseConfigured) ==
  [boards |-> <<>>, currentBoardId |-> Null, sharedBoard |-> <<>>,
   boardTitle |-> "Goal Bingo", customFrequency |-> "weekly", customGoals |-> <<>>,
   generationFrequency |-> "weekly", boardSize |-> defaultBoardSizeByFrequency["weekly"],
   boardSizeTouched |-> FALSE, customOnly |-> FALSE,
   selectedCustomIds |-> {}, selectedSuggestedIds |-> {},
   customSelectionTouched |-> FALSE, libraryFrequency |-> "weekly",
   librarySource |-> "suggested", bingoActive |-> FALSE, hasLoaded |-> FALSE,
   syncStatus |-> IF isFirebaseConfigured THEN "Connecting" ELSE "Local only",
   bingoLine |-> <<>>, pendingGoalSave |-> <<>>, editGoalModal |-> <<>>,
   subgoalModal |-> <<>>, isRearranging |-> FALSE, draftGoals |-> <<>>]

InitialRefs ==
  [remoteLoaded |-> FALSE, applyingRemote |-> FALSE, userId |-> Null, syncing |-> FALSE]

\* ---------------------------------------------------------- derived state
\* boards.find((item) => item.id === currentBoardId) ?? null
BoardOf(s) ==
  LET hits == {i \in DOMAIN s.boards : s.boards[i].id = s.currentBoardId}
  IN IF hits = {} THEN <<>> ELSE << s.boards[Min(hits)] >>

board == BoardOf(state)

customAvailableOf(s) ==
  SeqFilter(s.customGoals, {g \in Range(s.customGoals) : g.frequency = s.generationFrequency})
suggestedAvailableOf(s) ==
  SeqFilter(suggestedGoals, {g \in Range(suggestedGoals) : g.frequency = s.generationFrequency})
customChecked ==
  SeqFilter(customAvailableOf(state),
            {g \in Range(state.customGoals) : g.id \in state.selectedCustomIds})
suggestedChecked ==
  SeqFilter(suggestedAvailableOf(state),
            {g \in Range(suggestedGoals) : g.id \in state.selectedSuggestedIds})
IdsOf(seq) == {seq[i].id : i \in DOMAIN seq}

\* ------------------------------------------------------------ the effects
UiStateOf(s) ==
  [generationFrequency |-> s.generationFrequency, boardSize |-> s.boardSize,
   customOnly |-> s.customOnly, customFrequency |-> s.customFrequency,
   libraryFrequency |-> s.libraryFrequency, librarySource |-> s.librarySource]

\* JSON.stringify(payload) of the local persist effect
StoredSnapshot(s) ==
  [kind |-> "data",
   data |-> [has |-> {"boards", "currentBoardId", "customGoals", "uiState"},
             boards |-> s.boards, currentBoardId |-> s.currentBoardId,
             customGoals |-> s.customGoals, uiState |-> serializeUiState(UiStateOf(s))]]

\* the dependency list shared by the persist and the push effect
SyncDeps(s) ==
  << s.boards, s.currentBoardId, s.customGoals, s.generationFrequency, s.boardSize,
     s.customOnly, s.customFrequency, s.libraryFrequency, s.librarySource, s.hasLoaded >>

\* `fresh` names the arrays a setter replaced by a new object in this render
DepsChanged(prev, cur, fresh) == SyncDeps(prev) # SyncDeps(cur) \/ fresh # {}

\* (a persist effect that compares values only and skips the first loaded render)
PersistEffect_ValuesOnly(prev, cur, fresh, storage) ==
  IF SyncDeps(prev) # SyncDeps(cur) /\ cur.hasLoaded /\ prev.hasLoaded
  THEN [storage EXCEPT ![STORAGE_KEY] = StoredSnapshot(cur)]
  ELSE storage

\* Persist data after initial load
PersistEffect(prev, cur, fresh, storage) ==
  IF DepsChanged(prev, cur, fresh) /\ cur.hasLoaded
  THEN [storage EXCEPT ![STORAGE_KEY] = StoredSnapshot(cur)]
  ELSE storage

\* (a push effect that does not look at the suppression flag)
PushAllowed_NoSuppression(cur, r, isFirebaseConfigured) ==
  /\ isFirebaseConfigured
  /\ cur.hasLoaded /\ r.remoteLoaded
  /\ r.userId # Null

\* the guards of the push effect (lines 1952-1957)
PushAllowed(cur, r, isFirebaseConfigured) ==
  /\ isFirebaseConfigured
  /\ cur.hasLoaded /\ r.remoteLoaded
  /\ ~r.applyingRemote
  /\ r.userId # Null

\* the document handed to setDoc(..., { merge: true })
PushPayload(s) ==
  LET uiOk == /\ isFrequency(s.generationFrequency) /\ isBoardSize(s.boardSize)
              /\ isFrequency(s.customFrequency) /\ isFrequency(s.libraryFrequency)
              /\ isLibrarySource(s.librarySource)
  IN [has |-> {"boards", "currentBoardId", "customGoals"}
                \cup (IF uiOk THEN {"uiState"} ELSE {}),
      boards |-> SeqMap(serializeBoard, s.boards), currentBoardId |-> s.currentBoardId,
      customGoals |-> s.customGoals, uiState |-> serializeUiState(UiStateOf(s))]

\* (a push effect that also runs when a write has failed)
PushRuns_RetriesOnError(prev, cur, fresh, r, isFirebaseConfigured) ==
  /\ \/ DepsChanged(prev, cur, fresh)
     \/ prev.syncStatus # cur.syncStatus /\ cur.syncStatus = "Sync error"
  /\ PushAllowed(cur, r, isFirebaseConfigured)

\* the push effect runs when a dependency changed and its guards hold
PushRuns(prev, cur, fresh, r, isFirebaseConfigured) ==
  DepsChanged(prev, cur, fresh) /\ PushAllowed(cur, r, isFirebaseConfigured)

\* a dispatched setDoc: the document, and what the guards read when it left
Dispatch(cur, r, isFirebaseConfigured) ==
  [doc |-> PushPayload(cur),
   when |-> [isFirebaseConfigured |-> isFirebaseConfigured, hasLoaded |-> cur.hasLoaded,
             remoteLoaded |-> r.remoteLoaded, applyingRemote |-> r.applyingRemote,
             userId |-> r.userId]]

\* (a bingo effect that forgets the celebrated latch)
BingoCelebrates_NoLatch(prev, cur) ==
  /\ BoardOf(prev) # BoardOf(cur)
  /\ BoardOf(cur) # <<>>
  /\ hasBingo(BoardOf(cur)[1].goals, getBoardSize(BoardOf(cur)))

\* Detect Bingo and celebrate once: does the effect celebrate in this render?
BingoCelebrates(prev, cur) ==
  /\ BoardOf(prev) # BoardOf(cur)
  /\ BoardOf(cur) # <<>>
  /\ hasBingo(BoardOf(cur)[1].goals, getBoardSize(BoardOf(cur)))
  /\ ~BoardOf(cur)[1].celebrated

SetCelebrated(boards, id) ==
  SeqMap(LAMBDA item : IF item.id = id THEN [item EXCEPT !.celebrated = TRUE] ELSE item,
         boards)

\* One commit: every effect whose dependencies changed between the previous
\* render `prev` and this render `cur` runs on the values of `cur`; their
\* setState calls are batched into the next render.
EffectRound(prev, cur, fresh, r, o, isFirebaseConfigured) ==
  LET push == PushRuns(prev, cur, fresh, r, isFirebaseConfigured)
      freqRuns == \/ prev.generationFrequency # cur.generationFrequency
                  \/ prev.boardSizeTouched # cur.boardSizeTouched
      suggestedRuns == prev.generationFrequency # cur.generationFrequency
      customRuns == \/ customAvailableOf(prev) # customAvailableOf(cur)
                    \/ "customGoals" \in fresh
                    \/ prev.customSelectionTouched # cur.customSelectionTouched
      bingoRuns == BoardOf(prev) # BoardOf(cur) /\ BoardOf(cur) # <<>>
      line == getBingoLine(BoardOf(cur)[1].goals, getBoardSize(BoardOf(cur)))
      celebrates == BingoCelebrates(prev, cur)
      availableIds == IdsOf(customAvailableOf(cur))
      next ==
        [cur EXCEPT
           !.syncStatus = IF push THEN "Syncing..." ELSE @,
           !.boardSize = IF freqRuns /\ ~cur.boardSizeTouched
                         THEN defaultBoardSizeByFrequency[cur.generationFrequency] ELSE @,
           !.customSelectionTouched = IF freqRuns THEN FALSE ELSE @,
           !.selectedSuggestedIds = IF suggestedRuns
                                    THEN IdsOf(suggestedAvailableOf(cur)) ELSE @,
           !.selectedCustomIds = IF customRuns
                                 THEN (IF ~cur.customSelectionTouched THEN availableIds
                                       ELSE @ \cap availableIds)
                                 ELSE @,
           !.boards = IF celebrates THEN SetCelebrated(@, BoardOf(cur)[1].id) ELSE @,
           !.bingoActive = IF bingoRuns THEN line # <<>> ELSE @,
           !.bingoLine = IF bingoRuns THEN line ELSE @]
  IN [s |-> next,
      fresh |-> IF celebrates THEN {"boards"} ELSE {},
      r |-> [r EXCEPT !.syncing = IF push THEN TRUE ELSE @],
      o |-> [storage |-> PersistEffect(prev, cur, fresh, o.storage),
             pending |-> o.pending + (IF push THEN 1 ELSE 0),
             dispatched |-> IF push
                            THEN Append(o.dispatched, Dispatch(cur, r, isFirebaseConfigured))
                            ELSE o.dispatched,
             celebrations |-> o.celebrations + (IF celebrates THEN 1 ELSE 0)]]

\* renders and effects until no effect sets state any more: `res` is what the
\* effects of the render `cur` left
RECURSIVE Settle(_, _, _, _, _, _)
Rerender(cur, res, isFirebaseConfigured) ==
  IF res.s = cur /\ res.fresh = {} THEN res
  ELSE Settle(cur, res.s, res.fresh, res.r, res.o, isFirebaseConfigured)

Settle(prev, cur, fresh, r, o, isFirebaseConfigured) ==
  Rerender(cur, EffectRound(prev, cur, fresh, r, o, isFirebaseConfigured),
           isFirebaseConfigured)

\* the remote baseline is loaded and an identity is known
BaselineLoaded(s, r, isFirebaseConfigured) ==
  isFirebaseConfigured /\ s.hasLoaded /\ r.remoteLoaded /\ r.userId # Null

\* A handler or callback left the state `cur` (having replaced the arrays in
\* `fresh`), the refs `r` and the environment `net`: commit and run the
\* effects.  fx.unsent remembers the synced fields as the last change made
\* on this device (byUser) left them, if no write was dispatched for it.
AppCommitted(res, fresh, net, byUser) ==
  /\ res.o.pending <= MaxPending
  /\ lib' = lib
  /\ state' = res.s
  /\ refs' = res.r
  /\ localStorage' = res.o.storage
  /\ remote' = [net EXCEPT !.pendingWrites = res.o.pending]
  /\ fx' = [celebrations |-> res.o.celebrations, dispatched |-> res.o.dispatched,
            unsent |-> IF res.o.dispatched # <<>> THEN <<>>
                       ELSE IF /\ byUser /\ DepsChanged(state, res.s, fresh)
                               /\ BaselineLoaded(res.s, res.r, net.isFirebaseConfigured)
                            THEN << SyncDeps(res.s) >>
                            ELSE fx.unsent]

\* ... while the BoardHistory component keeps its own state
Committed(res, fresh, net, byUser) ==
  AppCommitted(res, fresh, net, byUser) /\ boardHistory' = boardHistory

Commit(cur, fresh, r, net, storage, byUser) ==
  Committed(Settle(state, cur, fresh, r,
                   [storage |-> storage, pending |-> net.pendingWrites,
                    dispatched |-> <<>>, celebrations |-> 0],
                   net.isFirebaseConfigured),
            fresh, net, byUser)

\* a handler that touches React state only
SetState(cur, fresh) ==
  Commit(cur, fresh, refs, remote, localStorage, TRUE) /\ nextId' = nextId

\* a callback that touches refs and the environment only: nothing renders
NoRender(r, net) ==
  /\ refs' = r /\ remote' = net /\ lib' = lib /\ boardHistory' = boardHistory
  /\ fx' = [fx EXCEPT !.celebrations = 0, !.dispatched = <<>>]
  /\ UNCHANGED <<state, localStorage, nextId>>

\* ---------------------------------------------- initial load (mount effects)
\* JSON values: null, a number, a string, an array with its items, an object
\* with its props
JsonNull == [type |-> "null"]
JsonNumber(n) == [type |-> "number", n |-> n]
JsonString(chars) == [type |-> "string", chars |-> chars]
JsonArray(items) == [type |-> "array", items |-> items]
JsonObject(props) == [type |-> "object", props |-> props]
ArrayisArray(value) == value.type = "array"

\* A storage key holds [kind |-> "data"] (the JSON of a StoredData), "legacy"
\* (the JSON of a board), "json" (the JSON of any other value without a
\* goals property), "garbage" (a text that is no JSON) or "absent".
\* value ?? []
OrEmptyArray(props, field) ==
  IF field \notin DOMAIN props \/ props[field].type = "null" THEN JsonArray(<<>>)
  ELSE props[field]

\* the try block throws: JSON.parse on a text that is no JSON, .map on a
\* value that is no array
LoadThrows(stored) ==
  \/ stored.kind = "garbage"
  \/ /\ stored.kind = "json" /\ stored.value.type = "object"
     /\ "boards" \in DOMAIN stored.value.props
     /\ \/ ~ArrayisArray(OrEmptyArray(stored.value.props, "boards"))
        \/ ~ArrayisArray(OrEmptyArray(stored.value.props, "customGoals"))

\* the setters that ran on such a value before the block returned or threw
LoadParsed(s0, parsed) ==
  IF parsed.type # "object" THEN s0
  ELSE IF "boards" \notin DOMAIN parsed.props THEN s0
  ELSE IF ~ArrayisArray(OrEmptyArray(parsed.props, "boards")) THEN s0
  ELSE [s0 EXCEPT
          !.boards = SeqMap(normalizeBoard, OrEmptyArray(parsed.props, "boards").items),
          !.currentBoardId = IF "currentBoardId" \in DOMAIN parsed.props
                             THEN parsed.props.currentBoardId ELSE Null,
          !.customGoals =
             IF ArrayisArray(OrEmptyArray(parsed.props, "customGoals"))
             THEN normalizeCustomGoals(OrEmptyArray(parsed.props, "customGoals").items)
             ELSE @]

\* what the load effect sets from the parsed value of the storage keys
LoadStored(s0, stored) ==
  IF stored.kind = "data" THEN
    LET data == stored.data
        ui == data.uiState
        hasUi(f) == "uiState" \in data.has /\ f \in ui.has
    IN [s0 EXCEPT
          !.boards = IF "boards" \in data.has THEN SeqMap(normalizeBoard, data.boards)
                     ELSE <<>>,
          !.currentBoardId = IF "currentBoardId" \in data.has THEN data.currentBoardId
                             ELSE Null,
          !.customGoals = IF "customGoals" \in data.has
                          THEN normalizeCustomGoals(data.customGoals) ELSE <<>>,
          !.generationFrequency =
             IF hasUi("generationFrequency") /\ isFrequency(ui.generationFrequency)
             THEN ui.generationFrequency ELSE @,
          !.boardSize = IF hasUi("boardSize") /\ isBoardSize(ui.boardSize)
                        THEN ui.boardSize ELSE @,
          !.boardSizeTouched = IF hasUi("boardSize") /\ isBoardSize(ui.boardSize)
                               THEN TRUE ELSE @,
          !.customOnly = IF hasUi("customOnly") /\ isBooleanText(ui.customOnly)
                         THEN BoolOfText(ui.customOnly) ELSE @,
          !.customFrequency =
             IF hasUi("customFrequency") /\ isFrequency(ui.customFrequency)
             THEN ui.customFrequency ELSE @,
          !.libraryFrequency =
             IF hasUi("libraryFrequency") /\ isFrequency(ui.libraryFrequency)
             THEN ui.libraryFrequency ELSE @,
          !.librarySource =
             IF hasUi("librarySource") /\ isLibrarySource(ui.librarySource)
             THEN ui.librarySource ELSE @]
  ELSE IF stored.kind = "legacy" THEN
    [s0 EXCEPT !.boards = << normalizeBoard(stored.board) >>,
               !.currentBoardId = stored.board.id]
  ELSE IF stored.kind = "json" THEN LoadParsed(s0, stored.value)
  ELSE s0

\* localStorage.getItem(STORAGE_KEY) || localStorage.getItem(LEGACY_STORAGE_KEY)
StoredItem(storage) ==
  IF storage[STORAGE_KEY].kind # "absent" THEN storage[STORAGE_KEY]
  ELSE storage[LEGACY_STORAGE_KEY]

\* the catch branch of the load effect
ClearOnParseError(storage) ==
  IF LoadThrows(StoredItem(storage)) THEN [k \in StorageKeys |-> Absent] ELSE storage

\* ------------------------------------------------------- shared-board link
\* Texts are modelled by how they were made: [kind |-> "json", value |-> v] is
\* the JSON text of v, [kind |-> "uri", of |-> t] the percent-encoding of t,
\* [kind |-> "base64", of |-> t] the base64 of t, and [kind |-> "text"] any
\* other text.  A JSON value is null, a number, or an object with its props.
WithoutProps(r, dropped) == [f \in DOMAIN r \ dropped |-> r[f]]

\* (a stringify that never writes sourceGoalId)
stringifyGoal_DropsSourceGoalId(goal) == WithoutProps(goal, {"sourceGoalId"})

\* JSON.stringify leaves out a property whose value is undefined
stringifyGoal(goal) ==
  WithoutProps(goal, IF goal.sourceGoalId = Null THEN {"sourceGoalId"} ELSE {})
JSONstringify(value) ==
  [kind |-> "json",
   value |-> JsonObject(WithoutProps([value EXCEPT !.goals = SeqMap(stringifyGoal, @)],
                                     IF value.size = 0 THEN {"size"} ELSE {}))]
encodeURIComponentText(text) == [kind |-> "uri", of |-> text]
btoa(text) == [kind |-> "base64", of |-> text]

\* btoa(encodeURIComponent(JSON.stringify(board)))
encodeBoard(b) == btoa(encodeURIComponentText(JSONstringify(b)))

\* JSON.parse(decodeURIComponent(atob(encoded))), null when one of them throws
decodeBoard(encoded) ==
  IF encoded.kind # "base64" THEN JsonNull
  ELSE IF encoded.of.kind # "uri" THEN JsonNull
  ELSE IF encoded.of.of.kind # "json" THEN JsonNull
  ELSE encoded.of.of.value

\* the props of a parsed object read as a Board: a missing one is undefined
GoalOfProps(props) ==
  MkGoal(props.id, props.text, props.frequency, props.completed, props.subgoals,
         IF "sourceGoalId" \in DOMAIN props THEN props.sourceGoalId ELSE Null)
IsGoalObject(item) == {"id", "text", "frequency", "completed", "subgoals"} \subseteq DOMAIN item
BoardOfProps(props) ==
  [id |-> IF "id" \in DOMAIN props THEN props.id ELSE Null,
   title |-> IF "title" \in DOMAIN props THEN props.title ELSE Null,
   createdAt |-> IF "createdAt" \in DOMAIN props THEN props.createdAt ELSE Null,
   goals |-> IF "goals" \in DOMAIN props
             THEN SeqMap(LAMBDA item : IF IsGoalObject(item) THEN GoalOfProps(item) ELSE item,
                         props.goals)
             ELSE <<>>,
   size |-> IF "size" \in DOMAIN props THEN props.size ELSE 0,
   celebrated |-> IF "celebrated" \in DOMAIN props THEN props.celebrated ELSE FALSE]

\* decoded && decoded.goals?.length
HasGoalsLength(decoded) ==
  /\ decoded.type = "object"
  /\ "goals" \in DOMAIN decoded.props
  /\ Len(decoded.props.goals) > 0

\* the board of the ?board= parameter, if it decodes to something with goals
SharedOf(decoded) ==
  IF HasGoalsLength(decoded) THEN << normalizeBoard(BoardOfProps(decoded.props)) >> ELSE <<>>
SharedFromUrl(url) == IF url = <<>> THEN <<>> ELSE SharedOf(decodeBoard(url[1]))

\* The first commit.  All mount effects run on the initial render: the load
\* effect queues its setters first, the board-size default effect (which
\* still sees boardSizeTouched = false) and the selection effects queue
\* theirs after it.  MountState is the state those setters leave.
MountState(s0, storage, url) ==
  [LoadStored(s0, StoredItem(storage)) EXCEPT
     !.hasLoaded = TRUE,
     !.sharedBoard = SharedFromUrl(url),
     !.boardSize = defaultBoardSizeByFrequency[s0.generationFrequency],
     !.customSelectionTouched = FALSE,
     !.selectedSuggestedIds = IdsOf(suggestedAvailableOf(s0)),
     !.selectedCustomIds = IdsOf(customAvailableOf(s0))]

\* ... then the effects settle on the loaded state
Mount ==
  /\ ~state.hasLoaded
  /\ Commit(MountState(state, localStorage, remote.url), {"boards", "customGoals"},
            refs, [remote EXCEPT !.authListener = remote.isFirebaseConfigured],
            ClearOnParseError(localStorage), TRUE)
  /\ nextId' = nextId

\* -------------------------------------------------------------- board store
\* updateCurrentBoard: prev.map((item) => item.id === board.id ? updater(item) : item)
\* the modals are full-page overlays: the page behind one takes no clicks
NoModal ==
  state.editGoalModal = <<>> /\ state.subgoalModal = <<>> /\ state.pendingGoalSave = <<>>

\* (a map callback that forgets to compare ids)
IsCurrentBoard_AnyBoard(item, boardOpt) == boardOpt # <<>>

\* if (!board) return; ... item.id === board.id
IsCurrentBoard(item, boardOpt) == boardOpt # <<>> /\ item.id = boardOpt[1].id

UpdateCurrentBoard(Updater(_)) ==
  SeqMap(LAMBDA item : IF IsCurrentBoard(item, board) THEN Updater(item) ELSE item,
         state.boards)

ToggledGoal(goal) ==
  IF Len(goal.subgoals) > 0
  THEN LET shouldComplete == ~(\A i \in DOMAIN goal.subgoals : goal.subgoals[i].done)
       IN [goal EXCEPT
             !.subgoals = SeqMap(LAMBDA subgoal : [subgoal EXCEPT !.done = shouldComplete],
                                 goal.subgoals),
             !.completed = shouldComplete]
  ELSE [goal EXCEPT !.completed = ~goal.completed]

toggleGoal(goalId) ==
  /\ state.hasLoaded /\ NoModal /\ board # <<>> /\ ~state.isRearranging
  /\ LET Updater(current) ==
           [current EXCEPT !.goals =
              SeqMap(LAMBDA goal : IF goal.id # goalId THEN goal ELSE ToggledGoal(goal),
                     current.goals)]
     IN SetState([state EXCEPT !.boards = UpdateCurrentBoard(Updater)], {"boards"})

\* (a reset that forgets the celebrated flag)
ResetBoard_KeepsCelebrated(current) ==
  [current EXCEPT
     !.goals = SeqMap(LAMBDA goal : [goal EXCEPT !.completed = FALSE], current.goals)]

ResetBoard(current) ==
  [current EXCEPT
     !.goals = SeqMap(LAMBDA goal : [goal EXCEPT !.completed = FALSE], current.goals),
     !.celebrated = FALSE]

handleResetProgress ==
  /\ state.hasLoaded /\ NoModal /\ board # <<>> /\ ~state.isRearranging
  /\ SetState([state EXCEPT !.boards = UpdateCurrentBoard(ResetBoard)], {"boards"})

handleOpenBoard(id) ==
  /\ state.hasLoaded /\ NoModal
  /\ id # state.currentBoardId
  /\ SetState([state EXCEPT !.currentBoardId = id], {})

\* safeRandomId(): an id no stored, remote or catalog object carries
FreshId(k) == 100000 + k
HasFreshIds(count) == nextId + count - 1 <= MaxIds

\* a handler that also draws `count` ids from safeRandomId()
SetStateWithIds(cur, fresh, count) ==
  /\ HasFreshIds(count)
  /\ Commit(cur, fresh, refs, remote, localStorage, TRUE)
  /\ nextId' = nextId + count

FindGoal(goals, goalId) ==
  LET hits == {i \in DOMAIN goals : goals[i].id = goalId}
  IN IF hits = {} THEN <<>> ELSE << goals[Min(hits)] >>

handleSaveCurrentTitle(currentTitleDraft) ==
  /\ state.hasLoaded /\ NoModal /\ board # <<>>
  /\ Trim(currentTitleDraft) # ""
  /\ LET Updater(current) == [current EXCEPT !.title = Trim(currentTitleDraft)]
     IN SetState([state EXCEPT !.boards = UpdateCurrentBoard(Updater)], {"boards"})

\* titleEdit is titleEdits[id], or the board's title when there is no edit
handleSaveTitle(id, titleEdit) ==
  /\ state.hasLoaded /\ NoModal
  /\ SetState([state EXCEPT !.boards =
                 SeqMap(LAMBDA item :
                          IF item.id # id THEN item
                          ELSE IF Trim(titleEdit) # "" THEN [item EXCEPT !.title = Trim(titleEdit)]
                          ELSE item,
                        @)],
              {"boards"})

\* ------------------------------------------------------------ rearranging
handleEnterRearrange ==
  /\ state.hasLoaded /\ NoModal /\ board # <<>> /\ ~state.isRearranging
  /\ SetState([state EXCEPT !.draftGoals = board[1].goals, !.isRearranging = TRUE], {})

handleCancelRearrange ==
  /\ state.hasLoaded /\ NoModal /\ state.isRearranging
  /\ SetState([state EXCEPT !.draftGoals = <<>>, !.isRearranging = FALSE], {})

handleSaveRearrange ==
  /\ state.hasLoaded /\ NoModal /\ state.isRearranging /\ board # <<>>
  /\ LET Updater(current) == [current EXCEPT !.goals = state.draftGoals]
     IN SetState([state EXCEPT !.boards = UpdateCurrentBoard(Updater),
                               !.draftGoals = <<>>, !.isRearranging = FALSE],
                 {"boards"})

\* shuffle(items): Fisher-Yates; the random draws leave the items after the
\* first MaxPermute in place and permute the first MaxPermute freely
shuffle(items) ==
  LET k == IF Len(items) < MaxPermute THEN Len(items) ELSE MaxPermute
  IN { [i \in DOMAIN items |-> IF i <= k THEN items[p[i]] ELSE items[i]] \o <<>> :
         p \in Permutations(1..k) }

handleRearrangeRandomize ==
  /\ state.hasLoaded /\ NoModal /\ state.isRearranging /\ board # <<>>
  /\ \E shuffled \in shuffle(state.draftGoals) :
       /\ shuffled # state.draftGoals
       /\ SetState([state EXCEPT !.draftGoals = shuffled], {})

\* const next = [...items]; const [moved] = next.splice(from, 1); next.splice(to, 0, moved)
moveItem(items, fromIndex, toIndex) ==
  LET without == SubSeq(items, 1, fromIndex - 1) \o SubSeq(items, fromIndex + 1, Len(items))
  IN SubSeq(without, 1, toIndex - 1) \o << items[fromIndex] >>
     \o SubSeq(without, toIndex, Len(without))

IndexOfGoal(goals, goalId) ==
  LET hits == {i \in DOMAIN goals : goals[i].id = goalId}
  IN IF hits = {} THEN 0 ELSE Min(hits)

handleReorder(activeId, overId) ==
  /\ state.hasLoaded /\ NoModal /\ state.isRearranging /\ board # <<>>
  /\ activeId # overId
  /\ LET oldIndex == IndexOfGoal(state.draftGoals, activeId)
         newIndex == IndexOfGoal(state.draftGoals, overId)
     IN /\ oldIndex # 0 /\ newIndex # 0
        /\ SetState([state EXCEPT !.draftGoals = moveItem(@, oldIndex, newIndex)], {})

\* ------------------------------------------------------- goal text editing
\* the edit button of a tile of the rearrange grid
handleEditGoal(goalId) ==
  /\ state.hasLoaded /\ NoModal /\ state.isRearranging /\ board # <<>>
  /\ FindGoal(board[1].goals, goalId) # <<>>
  /\ SetState([state EXCEPT !.editGoalModal =
                 << [goalId |-> goalId, text |-> FindGoal(board[1].goals, goalId)[1].text] >>],
              {})

onEditGoalChange(value) ==
  /\ state.hasLoaded /\ state.editGoalModal # <<>>
  /\ value # state.editGoalModal[1].text
  /\ SetState([state EXCEPT !.editGoalModal = << [@[1] EXCEPT !.text = value] >>], {})

onCancelGoalEdit ==
  /\ state.hasLoaded /\ state.editGoalModal # <<>>
  /\ SetState([state EXCEPT !.editGoalModal = <<>>], {})

handleApplyGoalEdit ==
  /\ state.hasLoaded /\ board # <<>> /\ state.editGoalModal # <<>>
  /\ LET modal == state.editGoalModal[1]
         trimmedText == Trim(modal.text)
         target == FindGoal(board[1].goals, modal.goalId)
         Updater(current) ==
           [current EXCEPT !.goals =
              SeqMap(LAMBDA goal : IF goal.id = modal.goalId
                                   THEN [goal EXCEPT !.text = trimmedText] ELSE goal,
                     current.goals)]
     IN /\ trimmedText # ""
        /\ IF target = <<>>
           THEN SetState([state EXCEPT !.editGoalModal = <<>>], {})
           ELSE SetState([state EXCEPT
                            !.boards = UpdateCurrentBoard(Updater),
                            !.pendingGoalSave =
                               << [text |-> trimmedText, frequency |-> target[1].frequency,
                                   sourceGoalId |-> target[1].sourceGoalId] >>,
                            !.editGoalModal = <<>>],
                         {"boards"})

\* (an update that retypes every template of the goal's frequency)
TemplatesUpdated_AllOfFrequency(customGoals, pending) ==
  SeqMap(LAMBDA goal : IF goal.frequency = pending.frequency
                       THEN [goal EXCEPT !.text = pending.text] ELSE goal,
         customGoals)

\* prev.map((goal) => goal.id === pendingGoalSave.sourceGoalId ? {...goal, text} : goal)
TemplatesUpdated(customGoals, pending) ==
  SeqMap(LAMBDA goal : IF goal.id = pending.sourceGoalId
                       THEN [goal EXCEPT !.text = pending.text] ELSE goal,
         customGoals)

handleSaveEditedGoal(mode) ==
  /\ state.hasLoaded /\ state.pendingGoalSave # <<>>
  /\ LET pending == state.pendingGoalSave[1]
     IN CASE mode = "new" ->
               SetStateWithIds(
                 [state EXCEPT
                    !.customGoals = Append(@, MkTemplate(FreshId(nextId), pending.text,
                                                         pending.frequency)),
                    !.pendingGoalSave = <<>>],
                 {"customGoals"}, 1)
          [] mode = "update" /\ pending.sourceGoalId # Null ->
               SetState(
                 [state EXCEPT
                    !.customGoals = TemplatesUpdated(@, pending),
                    !.pendingGoalSave = <<>>],
                 {"customGoals"})
          [] OTHER -> SetState([state EXCEPT !.pendingGoalSave = <<>>], {})

\* ----------------------------------------------------------------- subgoals
DefaultSubgoals(k) ==
  << MkSubgoal(FreshId(k), "Subgoal 1", FALSE), MkSubgoal(FreshId(k + 1), "Subgoal 2", FALSE) >>

handleOpenSubgoals ==
  /\ state.hasLoaded /\ board # <<>> /\ state.editGoalModal # <<>>
  /\ LET target == FindGoal(board[1].goals, state.editGoalModal[1].goalId)
         existing == target[1].subgoals
         Opened(base) == [state EXCEPT
                            !.subgoalModal = << [goalId |-> target[1].id, subgoals |-> base] >>,
                            !.editGoalModal = <<>>]
     IN /\ target # <<>>
        /\ IF Len(existing) >= 2
           THEN SetState(Opened(existing), {})
           ELSE SetStateWithIds(Opened(DefaultSubgoals(nextId)), {}, 2)

MapModalSubgoals(Op(_)) ==
  [state EXCEPT !.subgoalModal = << [@[1] EXCEPT !.subgoals = SeqMap(Op, @)] >>]

handleUpdateSubgoalText(id, value) ==
  /\ state.hasLoaded /\ state.subgoalModal # <<>>
  /\ \E i \in DOMAIN state.subgoalModal[1].subgoals :
       state.subgoalModal[1].subgoals[i].id = id /\ state.subgoalModal[1].subgoals[i].text # value
  /\ SetState(MapModalSubgoals(LAMBDA subgoal :
                 IF subgoal.id = id THEN [subgoal EXCEPT !.text = value] ELSE subgoal), {})

handleToggleSubgoal(id) ==
  /\ state.hasLoaded /\ state.subgoalModal # <<>>
  /\ SetState(MapModalSubgoals(LAMBDA subgoal :
                 IF subgoal.id = id THEN [subgoal EXCEPT !.done = ~@] ELSE subgoal), {})

handleAddSubgoal ==
  /\ state.hasLoaded /\ state.subgoalModal # <<>>
  /\ Len(state.subgoalModal[1].subgoals) < 24
  /\ Len(state.subgoalModal[1].subgoals) < MaxSubgoals
  /\ SetStateWithIds(
       [state EXCEPT !.subgoalModal =
          << [@[1] EXCEPT !.subgoals =
                Append(@, MkSubgoal(FreshId(nextId),
                                    "Subgoal " \o ToString(Len(@) + 1), FALSE))] >>],
       {}, 1)

handleDeleteSubgoal(id) ==
  /\ state.hasLoaded /\ state.subgoalModal # <<>>
  /\ Len(state.subgoalModal[1].subgoals) > 2
  /\ SetState([state EXCEPT !.subgoalModal =
                 << [@[1] EXCEPT !.subgoals =
                       SeqFilter(@, {sg \in Range(@) : sg.id # id})] >>], {})

onCancelSubgoals ==
  /\ state.hasLoaded /\ state.subgoalModal # <<>>
  /\ SetState([state EXCEPT !.subgoalModal = <<>>], {})

handleSaveSubgoals ==
  /\ state.hasLoaded /\ board # <<>> /\ state.subgoalModal # <<>>
  /\ LET modal == state.subgoalModal[1]
         trimmed == SeqMap(LAMBDA subgoal : [subgoal EXCEPT !.text = Trim(@)], modal.subgoals)
         cleaned == SeqFilter(trimmed, {sg \in Range(trimmed) : sg.text # ""})
         useDefault == Len(cleaned) < 2
         finalList == IF useDefault THEN DefaultSubgoals(nextId) ELSE cleaned
         allDone == \A i \in DOMAIN finalList : finalList[i].done
         Updater(current) ==
           [current EXCEPT !.goals =
              SeqMap(LAMBDA goal : IF goal.id = modal.goalId
                                   THEN [goal EXCEPT !.subgoals = finalList,
                                                     !.completed = allDone]
                                   ELSE goal,
                     current.goals)]
     IN SetStateWithIds([state EXCEPT !.boards = UpdateCurrentBoard(Updater),
                                      !.subgoalModal = <<>>],
                        {"boards"}, IF useDefault THEN 2 ELSE 0)

\* ------------------------------------------------------------ ui settings
CustomOnlyChanged(s, value) == [s EXCEPT !.customOnly = value]
onCustomOnlyChange(value) ==
  /\ state.hasLoaded /\ NoModal
  /\ value # state.customOnly
  /\ SetState(CustomOnlyChanged(state, value), {})

GenerationFrequencyChanged(s, value) == [s EXCEPT !.generationFrequency = value]
onGenerationFrequencyChange(value) ==
  /\ state.hasLoaded /\ NoModal
  /\ value # state.generationFrequency
  /\ SetState(GenerationFrequencyChanged(state, value), {})

BoardSizeChanged(s, value) == [s EXCEPT !.boardSizeTouched = TRUE, !.boardSize = value]
onBoardSizeChange(value) ==
  /\ state.hasLoaded /\ NoModal
  /\ SetState(BoardSizeChanged(state, value), {})

BoardTitleChanged(s, value) == [s EXCEPT !.boardTitle = value]
onBoardTitleChange(value) ==
  /\ state.hasLoaded /\ NoModal
  /\ value # state.boardTitle
  /\ SetState(BoardTitleChanged(state, value), {})

\* ------------------------------------------------------- goal selection
CustomSelectionToggled(s, id) ==
  [s EXCEPT !.customSelectionTouched = TRUE,
            !.selectedCustomIds = IF id \in @ THEN @ \ {id} ELSE @ \cup {id}]
handleToggleCustomSelection(id) ==
  /\ state.hasLoaded /\ NoModal
  /\ SetState(CustomSelectionToggled(state, id), {})

handleSelectAllSuggested ==
  /\ state.hasLoaded /\ NoModal
  /\ state.selectedSuggestedIds # IdsOf(suggestedAvailableOf(state))
  /\ SetState([state EXCEPT !.selectedSuggestedIds = IdsOf(suggestedAvailableOf(state))], {})

SuggestedCleared(s) == [s EXCEPT !.selectedSuggestedIds = {}]
handleClearSuggested ==
  /\ state.hasLoaded /\ NoModal
  /\ state.selectedSuggestedIds # {}
  /\ SetState(SuggestedCleared(state), {})

\* ------------------------------------------------------- custom library
\* customText is the text typed into the add-goal field
handleAddCustomGoal(customText) ==
  /\ state.hasLoaded /\ NoModal
  /\ Trim(customText) # ""
  /\ Len(state.customGoals) < MaxLibrary
  /\ SetStateWithIds([state EXCEPT !.customGoals =
                        Append(@, MkTemplate(FreshId(nextId), Trim(customText),
                                             state.customFrequency))],
                     {"customGoals"}, 1)

\* --------------------------------------------------------- board generation
\* (a size taken from the setting without the isBoardSize check)
safeSize_Unchecked(boardSize, generationFrequency) == boardSize

safeSize(boardSize, generationFrequency) ==
  IF isBoardSize(boardSize) THEN boardSize
  ELSE defaultBoardSizeByFrequency[generationFrequency]

\* ids of the goals of a new board: safeRandomId() draws, one per tile
GoalIdOf(boardId, i) == boardId * 100 + i

\* (a pick that fills up with suggestions whatever the custom-only box says)
suggestedPick_IgnoresCustomOnly(customOnly, shuffledSuggested, remaining) ==
  IF remaining > 0
  THEN SubSeq(shuffledSuggested, 1, Min({remaining, Len(shuffledSuggested)}))
  ELSE <<>>

\* the suggestions that fill the `remaining` tiles the custom goals left
suggestedPick(customOnly, shuffledSuggested, remaining) ==
  IF ~customOnly /\ remaining > 0
  THEN SubSeq(shuffledSuggested, 1, Min({remaining, Len(shuffledSuggested)}))
  ELSE <<>>

\* the board handleGenerateBoard builds from the settings of `s`, given the
\* two shuffles and the id drawn for the board
GenerateBoard(s, shuffledCustom, shuffledSuggested, boardId, createdAt) ==
  LET size == safeSize(s.boardSize, s.generationFrequency)
      totalTiles == size * size
      trimmedCustom == SubSeq(shuffledCustom, 1, Min({totalTiles, Len(shuffledCustom)}))
      remaining == totalTiles - Len(trimmedCustom)
      selected == trimmedCustom \o suggestedPick(s.customOnly, shuffledSuggested, remaining)
      goals ==
        [i \in 1..totalTiles |->
           IF i <= Len(selected)
           THEN MkGoal(GoalIdOf(boardId, i), selected[i].text, selected[i].frequency, FALSE,
                       <<>>,
                       IF selected[i].id \in IdsOf(s.customGoals) THEN selected[i].id
                       ELSE Null)
           ELSE MkGoal(GoalIdOf(boardId, i), "", s.generationFrequency, FALSE, <<>>, Null)]
        \o <<>>
  IN MkBoard(boardId, IF Trim(s.boardTitle) # "" THEN Trim(s.boardTitle) ELSE "Goal Bingo",
             createdAt, goals, size, FALSE)

\* (a new board put behind the others)
BoardAdded_AtEnd(s, newBoard) ==
  [s EXCEPT !.boards = @ \o << newBoard >>, !.currentBoardId = newBoard.id]

\* setBoards((prev) => [newBoard, ...prev]); setCurrentBoardId(newBoard.id)
BoardAdded(s, newBoard) ==
  [s EXCEPT !.boards = << newBoard >> \o @, !.currentBoardId = newBoard.id]

\* (a copy that keeps the id of the shared board)
SharedBoardCopy_KeepsId(sharedBoard, id, createdAt) ==
  normalizeBoard([sharedBoard EXCEPT !.createdAt = createdAt, !.celebrated = FALSE])

\* normalizeBoard({...sharedBoard, id, createdAt, celebrated: false})
SharedBoardCopy(sharedBoard, id, createdAt) ==
  normalizeBoard([sharedBoard EXCEPT !.id = id, !.createdAt = createdAt,
                                     !.celebrated = FALSE])

\* the board view maps over board.goals and reads each goal: it throws on
\* goals that are not an array of goal objects, and the page is gone
Renders(b) == \A i \in DOMAIN b.goals : IsGoalObject(b.goals[i])

handleUseSharedBoard ==
  /\ state.hasLoaded /\ NoModal
  /\ state.sharedBoard # <<>>
  /\ Renders(state.sharedBoard[1])
  /\ SetStateWithIds(BoardAdded(state, SharedBoardCopy(state.sharedBoard[1],
                                                       FreshId(nextId), nextId)),
                     {"boards"}, 1)

\* the boards generated since the page was loaded
GeneratedBoards(boards) == {i \in DOMAIN boards : boards[i].id >= FreshId(1)}

handleGenerateBoard ==
  /\ state.hasLoaded /\ NoModal
  /\ Cardinality(GeneratedBoards(state.boards)) < MaxBoards
  /\ \E shuffledCustom \in shuffle(customChecked),
        shuffledSuggested \in shuffle(suggestedChecked) :
       SetStateWithIds(BoardAdded(state, GenerateBoard(state, shuffledCustom,
                                                       shuffledSuggested,
                                                       FreshId(nextId), nextId)),
                       {"boards"}, 1)

\* ------------------------------------------------------------- remote sync
\* onAuthStateChanged: no user (anonymous sign-in is started), or the user;
\* the callback subscribes to the user's document and keeps the unsubscribe
\* function in the effect's unsubscribeSnapshot, over the one it held
onAuthStateChanged(user) ==
  /\ remote.authListener
  /\ remote.subscriptions < MaxSubscriptions
  /\ IF user = Null
     THEN /\ state.syncStatus # "Connecting"
          /\ SetState([state EXCEPT !.syncStatus = "Connecting"], {})
     ELSE /\ refs' = [refs EXCEPT !.userId = user]
          /\ remote' = [remote EXCEPT !.subscriptions = @ + 1]
          /\ fx' = [fx EXCEPT !.celebrations = 0, !.dispatched = <<>>]
          /\ UNCHANGED <<state, localStorage, nextId, lib, boardHistory>>

\* (a snapshot callback that adopts nothing of the document)
ApplyRemote_KeepsBoards(s, data) == s

\* what the snapshot callback sets from the document's data (lines 1913-1936)
ApplyRemote(s, data) ==
  LET ui == data.uiState
      hasUi(f) == "uiState" \in data.has /\ f \in ui.has
  IN [s EXCEPT
        !.boards = IF "boards" \in data.has THEN SeqMap(normalizeBoard, data.boards)
                   ELSE <<>>,
        !.customGoals = IF "customGoals" \in data.has
                        THEN normalizeCustomGoals(data.customGoals) ELSE <<>>,
        !.currentBoardId = IF "currentBoardId" \in data.has THEN data.currentBoardId
                           ELSE Null,
        !.generationFrequency =
           IF hasUi("generationFrequency") /\ isFrequency(ui.generationFrequency)
           THEN ui.generationFrequency ELSE @,
        !.boardSize = IF hasUi("boardSize") /\ isBoardSize(ui.boardSize)
                      THEN ui.boardSize ELSE @,
        !.boardSizeTouched = IF hasUi("boardSize") /\ isBoardSize(ui.boardSize)
                             THEN TRUE ELSE @,
        !.customOnly = IF hasUi("customOnly") /\ isBooleanText(ui.customOnly)
                       THEN BoolOfText(ui.customOnly) ELSE @,
        !.customFrequency =
           IF hasUi("customFrequency") /\ isFrequency(ui.customFrequency)
           THEN ui.customFrequency ELSE @,
        !.libraryFrequency =
           IF hasUi("libraryFrequency") /\ isFrequency(ui.libraryFrequency)
           THEN ui.libraryFrequency ELSE @,
        !.librarySource =
           IF hasUi("librarySource") /\ isLibrarySource(ui.librarySource)
           THEN ui.librarySource ELSE @]

\* the onSnapshot callback: the user's document does not exist, or its data
onSnapshot(snapshot) ==
  /\ remote.subscriptions > 0
  /\ LET status == IF refs.syncing THEN state.syncStatus ELSE "Connected"
     IN IF snapshot.kind = "absent"
        THEN Commit([state EXCEPT !.syncStatus = status], {},
                    [refs EXCEPT !.remoteLoaded = TRUE], remote, localStorage, FALSE)
        ELSE /\ remote.timers < MaxTimers
             /\ Commit([ApplyRemote(state, snapshot.data) EXCEPT !.syncStatus = status],
                       {"boards", "customGoals"},
                       [refs EXCEPT !.applyingRemote = TRUE, !.remoteLoaded = TRUE],
                       [remote EXCEPT !.timers = @ + 1], localStorage, FALSE)
  /\ nextId' = nextId

\* setTimeout(() => { applyingRemoteRef.current = false }, 50)
TimerFires ==
  /\ remote.timers > 0
  /\ NoRender([refs EXCEPT !.applyingRemote = FALSE], [remote EXCEPT !.timers = @ - 1])

\* the cleanup of the auth effect: if (unsubscribeSnapshot)
\* unsubscribeSnapshot(); unsubscribeAuth().  unsubscribeSnapshot is the
\* function of the last subscription opened, if any was.
Unmount ==
  /\ remote.authListener
  /\ NoRender(refs, [remote EXCEPT !.authListener = FALSE,
                                   !.subscriptions = IF @ > 0 THEN @ - 1 ELSE @])

\* the setDoc promise resolves / rejects
WriteSettles(syncStatus) ==
  /\ remote.pendingWrites > 0
  /\ Commit([state EXCEPT !.syncStatus = syncStatus], {},
            [refs EXCEPT !.syncing = FALSE],
            [remote EXCEPT !.pendingWrites = @ - 1], localStorage, FALSE)
  /\ nextId' = nextId

\* ------------------------------------------------------------ sample inputs
GoalTexts == << "Run 3 miles", "Read", "Cook" >>
PlainGoals(boardId, count, frequency) ==
  [i \in 1..count |->
     MkGoal(boardId * 100 + i,
            IF i = count THEN "" ELSE GoalTexts[(i % 3) + 1],
            frequency, FALSE, <<>>, Null)] \o <<>>
PlainBoard(boardId, size, frequency) ==
  MkBoard(boardId, "Goal Bingo", boardId, PlainGoals(boardId, size * size, frequency),
          size, FALSE)
UiDefaults == serializeUiState(UiStateOf(InitialState(FALSE)))
StoredBoards(boards, currentBoardId) ==
  [kind |-> "data",
   data |-> [has |-> {"boards", "currentBoardId", "customGoals", "uiState"},
             boards |-> boards, currentBoardId |-> currentBoardId,
             customGoals |-> <<>>, uiState |-> UiDefaults]]

\* the cells the user taps, in this order: the first row, the rest of the
\* first column, the rest of the main diagonal; the first MaxTaps of them
TapOrder(size) ==
  [i \in 1..size |-> i]
  \o [i \in 1..(size - 1) |-> i * size + 1]
  \o [i \in 1..(size - 1) |-> i * (size + 1) + 1]
TapIds ==
  IF board = <<>> THEN {}
  ELSE LET order == TapOrder(getBoardSize(board))
       IN {board[1].goals[order[k]].id :
             k \in {j \in DOMAIN order : j <= MaxTaps /\ order[j] \in DOMAIN board[1].goals}}

InitEnv(stored, legacy, isFirebaseConfigured, url) ==
  /\ state = InitialState(isFirebaseConfigured)
  /\ refs = InitialRefs
  /\ localStorage = [k \in StorageKeys |-> IF k = STORAGE_KEY THEN stored ELSE legacy]
  /\ remote = [isFirebaseConfigured |-> isFirebaseConfigured, url |-> url,
               pendingWrites |-> 0, timers |-> 0, subscriptions |-> 0,
               authListener |-> FALSE]
  /\ fx = [celebrations |-> 0, dispatched |-> <<>>, unsent |-> <<>>]
  /\ nextId = 1
  /\ lib = Unmounted
  /\ boardHistory = BoardHistoryInitial

\* ------------------------------------------------ the useGoalLibrary hook
\* encodeURIComponent on the goal keys of the model
encodeURIComponent(key) ==
  CASE key = "weekly:read" -> "weekly%3Aread"
    [] key = "weekly:run" -> "weekly%3Arun"
    [] key = "weekly:cook" -> "weekly%3Acook"
    [] key = "weekly:stretch" -> "weekly%3Astretch"
    [] key = "monthly:cook" -> "monthly%3Acook"
    [] key = "weekly:run 3 miles" -> "weekly%3Arun%203%20miles"
    [] OTHER -> key

isIncomplete(goal) ==
  IF Len(goal.subgoals) > 0
  THEN \E i \in DOMAIN goal.subgoals : ~goal.subgoals[i].done
  ELSE ~goal.completed

\* [...boards].sort((a, b) => b.createdAt.localeCompare(a.createdAt)): a
\* stable sort, newest first
InsertBoard(sorted, item) ==
  LET k == Cardinality({i \in DOMAIN sorted : sorted[i].createdAt >= item.createdAt})
  IN SubSeq(sorted, 1, k) \o << item >> \o SubSeq(sorted, k + 1, Len(sorted))
RECURSIVE sortedBoards(_)
sortedBoards(boards) ==
  IF boards = <<>> THEN <<>>
  ELSE InsertBoard(sortedBoards(SubSeq(boards, 1, Len(boards) - 1)), boards[Len(boards)])

\* the goals in the order the two nested forEach visit them
RECURSIVE GoalsInScanOrder(_)
GoalsInScanOrder(boards) ==
  IF boards = <<>> THEN <<>> ELSE Head(boards).goals \o GoalsInScanOrder(Tail(boards))

RecentTemplate(goal, text, key) ==
  MkTemplate("recent-" \o (IF goal.sourceGoalId # Null THEN ToString(goal.sourceGoalId)
                           ELSE encodeURIComponent(key)),
             text, goal.frequency)

\* the body of the inner forEach: acc holds `processed` and the values of `seen`
ScanGoal(acc, goal, generationFrequency, dismissedSet) ==
  IF \/ Trim(goal.text) = ""
     \/ goal.frequency # generationFrequency
     \/ getGoalKey(goal.frequency, Trim(goal.text)) \in dismissedSet
     \/ getGoalKey(goal.frequency, Trim(goal.text)) \in acc.processed
  THEN acc
  ELSE IF ~isIncomplete(goal)
  THEN [acc EXCEPT !.processed = @ \cup {getGoalKey(goal.frequency, Trim(goal.text))}]
  ELSE [processed |-> acc.processed \cup {getGoalKey(goal.frequency, Trim(goal.text))},
        seen |-> Append(acc.seen, RecentTemplate(goal, Trim(goal.text),
                                                 getGoalKey(goal.frequency, Trim(goal.text))))]

RECURSIVE ScanGoals(_, _, _, _)
ScanGoals(goals, acc, generationFrequency, dismissedSet) ==
  IF goals = <<>> THEN acc
  ELSE ScanGoals(Tail(goals), ScanGoal(acc, Head(goals), generationFrequency, dismissedSet),
                 generationFrequency, dismissedSet)

\* what the factory of the recentIncompleteAvailable memo returns
recentIncompleteAvailableOf(boards, generationFrequency, dismissedRecentGoals) ==
  ScanGoals(GoalsInScanOrder(sortedBoards(boards)), [processed |-> {}, seen |-> <<>>],
            generationFrequency, Range(dismissedRecentGoals)).seen

\* the first render of the hook with these props
InitialLibrary(boards, generationFrequency, dismissedRecentGoals) ==
  [mounted |-> TRUE, boards |-> boards, generationFrequency |-> generationFrequency,
   dismissedRecentGoals |-> dismissedRecentGoals, customGoals |-> <<>>,
   selectedCustomIds |-> {}, selectedSuggestedIds |-> {}, selectedRecentIds |-> {},
   customSelectionTouched |-> FALSE, recentIncompleteAvailable |-> <<>>]

\* the dependencies of the memo: [boards, generationFrequency]
MemoDepsChanged(prev, cur, fresh) ==
  \/ "mount" \in fresh \/ "boards" \in fresh
  \/ prev.generationFrequency # cur.generationFrequency

\* a render: the memo is computed anew when a dependency changed
RenderLibrary(prev, cur, fresh) ==
  [cur EXCEPT !.recentIncompleteAvailable =
     IF MemoDepsChanged(prev, cur, fresh)
     THEN recentIncompleteAvailableOf(cur.boards, cur.generationFrequency,
                                      cur.dismissedRecentGoals)
     ELSE @]

\* (a frequency effect that leaves the touched flag alone)
LibraryEffects_KeepsTouched(prev, cur, fresh) ==
  [cur EXCEPT
     !.selectedSuggestedIds =
        IF "mount" \in fresh \/ prev.generationFrequency # cur.generationFrequency
        THEN IdsOf(suggestedAvailableOf(cur)) ELSE @,
     !.selectedRecentIds =
        IF MemoDepsChanged(prev, cur, fresh) THEN IdsOf(cur.recentIncompleteAvailable) ELSE @,
     !.selectedCustomIds =
        IF \/ "mount" \in fresh \/ "customGoals" \in fresh
           \/ prev.generationFrequency # cur.generationFrequency
           \/ prev.customSelectionTouched # cur.customSelectionTouched
        THEN (IF ~cur.customSelectionTouched THEN IdsOf(customAvailableOf(cur))
              ELSE @ \cap IdsOf(customAvailableOf(cur)))
        ELSE @]

\* the three selection effects after the render of `cur`; each runs when one
\* of its dependencies is a new value
LibraryEffects(prev, cur, fresh) ==
  [cur EXCEPT
     !.selectedSuggestedIds =
        IF "mount" \in fresh \/ prev.generationFrequency # cur.generationFrequency
        THEN IdsOf(suggestedAvailableOf(cur)) ELSE @,
     !.customSelectionTouched =
        IF "mount" \in fresh \/ prev.generationFrequency # cur.generationFrequency
        THEN FALSE ELSE @,
     !.selectedRecentIds =
        IF MemoDepsChanged(prev, cur, fresh) THEN IdsOf(cur.recentIncompleteAvailable) ELSE @,
     !.selectedCustomIds =
        IF \/ "mount" \in fresh \/ "customGoals" \in fresh
           \/ prev.generationFrequency # cur.generationFrequency
           \/ prev.customSelectionTouched # cur.customSelectionTouched
        THEN (IF ~cur.customSelectionTouched THEN IdsOf(customAvailableOf(cur))
              ELSE @ \cap IdsOf(customAvailableOf(cur)))
        ELSE @]

\* renders and effects until no effect sets state any more
RECURSIVE LibrarySettle(_, _, _)
LibraryRerender(rendered, next) ==
  IF next = rendered THEN rendered ELSE LibrarySettle(rendered, next, {})
LibraryEffectsRun(prev, rendered, fresh) ==
  LibraryRerender(rendered, LibraryEffects(prev, rendered, fresh))
LibrarySettle(prev, cur, fresh) ==
  LibraryEffectsRun(prev, RenderLibrary(prev, cur, fresh), fresh)

LibraryCommit(cur, fresh) ==
  /\ lib.mounted
  /\ lib' = LibrarySettle(lib, cur, fresh)
  /\ UNCHANGED <<state, refs, localStorage, remote, fx, nextId, boardHistory>>

MountLibrary(boards, generationFrequency, dismissedRecentGoals) ==
  /\ ~lib.mounted
  /\ lib' = LibrarySettle(InitialLibrary(boards, generationFrequency, dismissedRecentGoals),
                          InitialLibrary(boards, generationFrequency, dismissedRecentGoals),
                          {"mount"})
  /\ UNCHANGED <<state, refs, localStorage, remote, fx, nextId, boardHistory>>

\* the owner renders the hook with another generationFrequency
GenerationFrequencyProp(value) ==
  /\ lib.mounted /\ value # lib.generationFrequency
  /\ LibraryCommit([lib EXCEPT !.generationFrequency = value], {})

\* the owner renders the hook with other boards: one goal was toggled
BoardsProp(b, g) ==
  /\ lib.mounted /\ b \in DOMAIN lib.boards /\ g \in DOMAIN lib.boards[b].goals
  /\ LibraryCommit([lib EXCEPT !.boards[b].goals[g] = ToggledGoal(@)], {"boards"})

\* the owner renders the hook with another dismissedRecentGoals
DismissedRecentGoalsProp(keys) ==
  /\ lib.mounted /\ keys # lib.dismissedRecentGoals
  /\ LibraryCommit([lib EXCEPT !.dismissedRecentGoals = keys], {})

\* the owner loads the stored library through setCustomGoals
setCustomGoals(goals) ==
  /\ lib.mounted /\ lib.customGoals = <<>>
  /\ LibraryCommit([lib EXCEPT !.customGoals = goals], {"customGoals"})

useGoalLibrary_handleToggleCustomSelection(id) ==
  LibraryCommit(CustomSelectionToggled(lib, id), {})

handleToggleRecentSelection(id) ==
  LibraryCommit([lib EXCEPT !.selectedRecentIds = IF id \in @ THEN @ \ {id} ELSE @ \cup {id}],
                {})

\* ---------------------------------------------- specification: bingo effect
\* one stored board of each size, without a remote backend
BingoStores ==
  { StoredBoards(<< PlainBoard(11, n, "weekly") >>, 11) : n \in BoardSizes }

InitBingo == \E stored \in BingoStores : InitEnv(stored, Absent, FALSE, <<>>)

NextBingo ==
  \/ Mount
  \/ \E goalId \in TapIds : toggleGoal(goalId)
  \/ handleResetProgress

SpecBingo == InitBingo /\ [][NextBingo]_vars

\* C1: for a board of any size whose goals are toggled one at a time, the
\* celebration fires in exactly the steps that complete a first line on the
\* current board while it is not yet celebrated; such a step sets celebrated,
\* no step fires on a celebrated board (further lines), and a step of
\* handleResetProgress never fires and leaves the board uncelebrated.
C1_CelebratesOnce ==
  [][ LET before == BoardOf(state)
          after == BoardOf(state')
          completesLine ==
            /\ before # <<>> /\ after # <<>> /\ before[1].id = after[1].id
            /\ ~before[1].celebrated
            /\ ~hasBingo(before[1].goals, getBoardSize(before))
            /\ hasBingo(after[1].goals, getBoardSize(after))
      IN /\ fx'.celebrations <= 1
         /\ (fx'.celebrations = 1) <=> completesLine
         /\ completesLine => after[1].celebrated
         /\ (before # <<>> /\ before[1].celebrated) => fx'.celebrations = 0
         /\ handleResetProgress => (fx'.celebrations = 0 /\ ~after[1].celebrated)
    ]_vars

\* a second line (first row, then first column) was completed on a celebrated
\* board and the step that completed it fired nothing
C1_Witness ==
  /\ board # <<>> /\ board[1].celebrated
  /\ \A k \in 1..board[1].size :
       /\ CompletedAt(board[1].goals, k - 1)
       /\ CompletedAt(board[1].goals, (k - 1) * board[1].size)
  /\ fx.celebrations = 0

\* ------------------------------------------- specification: editing a board
\* a 3x3 board whose first goal has three subgoals, two of them done, and
\* comes from a custom goal of the library; a 4x4 board behind it
EditGoals ==
  [PlainGoals(11, 9, "weekly") EXCEPT
     ![1] = MkGoal(1101, "Run 3 miles", "weekly", FALSE,
                   << MkSubgoal(1, "Warm up", TRUE), MkSubgoal(2, "Run", TRUE),
                      MkSubgoal(3, "Cool down", FALSE) >>,
                   501)]
EditStore ==
  [kind |-> "data",
   data |-> [has |-> {"boards", "currentBoardId", "customGoals", "uiState"},
             boards |-> << MkBoard(11, "Goal Bingo", 11, EditGoals, 3, FALSE),
                           PlainBoard(12, 4, "weekly") >>,
             currentBoardId |-> 11,
             customGoals |-> << MkTemplate(501, "Run 3 miles", "weekly") >>,
             uiState |-> UiDefaults]]

SubgoalStore ==
  [EditStore EXCEPT !.data.boards = << @[1] >>]

\* the tile the user edits: the first of the grid on screen
FirstTileIds ==
  LET shown == IF state.isRearranging THEN state.draftGoals
               ELSE IF board = <<>> THEN <<>> ELSE board[1].goals
  IN {shown[i].id : i \in {j \in DOMAIN shown : j <= 1}}
\* the tiles the user drags: the first MaxDrag of the draft grid
DragIds == {state.draftGoals[i].id : i \in {j \in DOMAIN state.draftGoals : j <= MaxDrag}}
\* the subgoals the user works on: the first is retyped or deleted, the last
\* is ticked
LastModalSubgoalIds ==
  IF state.subgoalModal = <<>> THEN {}
  ELSE {state.subgoalModal[1].subgoals[Len(state.subgoalModal[1].subgoals)].id}
FirstModalSubgoalIds ==
  IF state.subgoalModal = <<>> THEN {} ELSE {state.subgoalModal[1].subgoals[1].id}
EditTexts == {" ", " Stretch "}

\* ------------------------------------------------- specification: subgoals
InitSubgoals == InitEnv(SubgoalStore, Absent, FALSE, <<>>)

NextSubgoals ==
  \/ Mount
  \/ \E goalId \in FirstTileIds : toggleGoal(goalId)
  \/ handleResetProgress
  \/ handleEnterRearrange
  \/ handleCancelRearrange
  \/ \E goalId \in FirstTileIds : handleEditGoal(goalId)
  \/ onCancelGoalEdit
  \/ handleOpenSubgoals
  \/ \E id \in FirstModalSubgoalIds : handleUpdateSubgoalText(id, " ")
  \/ \E id \in LastModalSubgoalIds : handleToggleSubgoal(id)
  \/ handleAddSubgoal
  \/ \E id \in FirstModalSubgoalIds : handleDeleteSubgoal(id)
  \/ onCancelSubgoals
  \/ handleSaveSubgoals

SpecSubgoals == InitSubgoals /\ [][NextSubgoals]_vars

\* ---------------------------------------------- specification: rearranging
InitRearrange == InitEnv(EditStore, Absent, FALSE, <<>>)

NextRearrange ==
  \/ Mount
  \/ \E id \in IdsOf(state.boards) : handleOpenBoard(id)
  \/ handleSaveCurrentTitle(" Stretch ")
  \/ handleEnterRearrange
  \/ handleCancelRearrange
  \/ handleSaveRearrange
  \/ handleRearrangeRandomize
  \/ \E activeId \in DragIds, overId \in DragIds : handleReorder(activeId, overId)

SpecRearrange == InitRearrange /\ [][NextRearrange]_vars

\* ------------------------------------------- specification: editing a text
InitEditText == InitEnv(SubgoalStore, Absent, FALSE, <<>>)

NextEditText ==
  \/ Mount
  \/ handleEnterRearrange
  \/ handleCancelRearrange
  \/ \E goalId \in FirstTileIds : handleEditGoal(goalId)
  \/ \E value \in EditTexts : onEditGoalChange(value)
  \/ onCancelGoalEdit
  \/ handleApplyGoalEdit
  \/ \E mode \in {"new", "update", "skip"} : handleSaveEditedGoal(mode)

SpecEditText == InitEditText /\ [][NextEditText]_vars

\* C2: every goal of every board that has a non-empty subgoal list has
\* completed = (all of its subgoals are done).
C2_SubgoalsDecideCompleted ==
  \A b \in DOMAIN state.boards : \A g \in DOMAIN state.boards[b].goals :
    LET goal == state.boards[b].goals[g]
    IN Len(goal.subgoals) > 0 =>
         (goal.completed <=> \A i \in DOMAIN goal.subgoals : goal.subgoals[i].done)

\* C8: every board of the store has goals.length = size * size.
C8_GoalsFillTheGrid ==
  \A b \in DOMAIN state.boards :
    Len(state.boards[b].goals) = state.boards[b].size * state.boards[b].size

\* --------------------------------------------- specification: remote sync
\* documents the snapshot listener delivers
RemoteUi ==
  [has |-> {"generationFrequency", "boardSize", "customOnly", "customFrequency",
            "libraryFrequency", "librarySource"},
   generationFrequency |-> "monthly", boardSize |-> 4, customOnly |-> "true",
   customFrequency |-> "daily", libraryFrequency |-> "yearly", librarySource |-> "custom"]
InvalidUi ==
  [has |-> {"generationFrequency", "boardSize", "customOnly", "librarySource"},
   generationFrequency |-> "hourly", boardSize |-> 7, customOnly |-> "yes",
   customFrequency |-> "weekly", libraryFrequency |-> "weekly", librarySource |-> "mine"]
WonGoals ==
  [i \in 1..9 |-> [PlainGoals(21, 9, "monthly")[i] EXCEPT !.completed = (i <= 3)]] \o <<>>
RemoteDoc(has, boards, currentBoardId, uiState) ==
  [kind |-> "data",
   data |-> [has |-> has, boards |-> boards, currentBoardId |-> currentBoardId,
             customGoals |-> << MkTemplate(601, "Read", "monthly") >>, uiState |-> uiState]]
AllFields == {"boards", "currentBoardId", "customGoals", "uiState"}
Snapshots ==
  { Absent,
    RemoteDoc(AllFields, << PlainBoard(21, 3, "monthly") >>, 21, RemoteUi),
    RemoteDoc(AllFields, << MkBoard(21, "Goal Bingo", 21, WonGoals, 3, FALSE) >>, 21,
              RemoteUi),
    RemoteDoc(AllFields, << PlainBoard(21, 3, "monthly") >>, 21, InvalidUi),
    RemoteDoc({"currentBoardId"}, <<>>, 21, RemoteUi) }
Users == {7}

\* what the two storage keys hold at start: this version's data, a legacy
\* board, text that does not parse, or nothing
SyncStores ==
  { << StoredBoards(<< PlainBoard(11, 3, "weekly") >>, 11), Absent >>,
    << Absent, [kind |-> "legacy", board |-> PlainBoard(11, 3, "weekly")] >>,
    << [kind |-> "garbage"], Absent >>,
    << Absent, Absent >> }

InitSync ==
  \E configured \in BOOLEAN, stored \in SyncStores :
    InitEnv(stored[1], stored[2], configured, <<>>)

NextSync ==
  \/ Mount
  \/ \E goalId \in FirstTileIds : toggleGoal(goalId)
  \/ \E value \in BOOLEAN : onCustomOnlyChange(value)
  \/ \E user \in Users \cup {Null} : refs.userId = Null /\ onAuthStateChanged(user)
  \/ \E snapshot \in Snapshots : onSnapshot(snapshot)
  \/ TimerFires
  \/ \E syncStatus \in {"Synced", "Sync error"} : WriteSettles(syncStatus)

\* a session with one sign-in
SpecSync == InitSync /\ [][NextSync]_vars

\* C3: every write to the remote document left in a state where the backend
\* is configured, the initial load is done, the remote baseline is loaded,
\* the applying-remote flag is off and a user id is known.
C3_WritesOnlyWhenGuardsHold ==
  /\ \A i \in DOMAIN fx.dispatched :
       LET when == fx.dispatched[i].when
       IN /\ when.isFirebaseConfigured /\ when.hasLoaded /\ when.remoteLoaded
          /\ ~when.applyingRemote /\ when.userId # Null
  /\ fx.dispatched # <<>> =>
       /\ remote.isFirebaseConfigured /\ state.hasLoaded /\ refs.remoteLoaded
       /\ ~refs.applyingRemote /\ refs.userId # Null

\* a local change on a board adopted from the remote document was written
\* after the suppression window closed
C3_Witness ==
  /\ fx.dispatched # <<>>
  /\ state.boards # <<>> /\ state.boards[1].id = 21
  /\ fx.dispatched[1].doc.boards = SeqMap(serializeBoard, state.boards)

\* the fields of a document that pass their check, as the state holds them
AdoptsField(s, data, field) ==
  LET ui == data.uiState
  IN CASE field = "customGoals" -> s.customGoals = normalizeCustomGoals(data.customGoals)
       [] field = "currentBoardId" -> s.currentBoardId = data.currentBoardId
       [] field = "generationFrequency" -> s.generationFrequency = ui.generationFrequency
       [] field = "boardSize" -> s.boardSize = ui.boardSize
       [] field = "customOnly" -> s.customOnly = BoolOfText(ui.customOnly)
       [] field = "customFrequency" -> s.customFrequency = ui.customFrequency
       [] field = "libraryFrequency" -> s.libraryFrequency = ui.libraryFrequency
       [] field = "librarySource" -> s.librarySource = ui.librarySource
RetainsField(s, t, field) ==
  CASE field = "boards" -> t.boards = s.boards
    [] field = "customGoals" -> t.customGoals = s.customGoals
    [] field = "currentBoardId" -> t.currentBoardId = s.currentBoardId
    [] field = "generationFrequency" -> t.generationFrequency = s.generationFrequency
    [] field = "boardSize" -> t.boardSize = s.boardSize
    [] field = "customOnly" -> t.customOnly = s.customOnly
    [] field = "customFrequency" -> t.customFrequency = s.customFrequency
    [] field = "libraryFrequency" -> t.libraryFrequency = s.libraryFrequency
    [] field = "librarySource" -> t.librarySource = s.librarySource
ValidField(data, field) ==
  LET ui == data.uiState
      hasUi == "uiState" \in data.has /\ field \in ui.has
  IN CASE field \in {"boards", "customGoals", "currentBoardId"} -> field \in data.has
       [] field = "generationFrequency" -> hasUi /\ isFrequency(ui.generationFrequency)
       [] field = "boardSize" -> hasUi /\ isBoardSize(ui.boardSize)
       [] field = "customOnly" -> hasUi /\ isBooleanText(ui.customOnly)
       [] field = "customFrequency" -> hasUi /\ isFrequency(ui.customFrequency)
       [] field = "libraryFrequency" -> hasUi /\ isFrequency(ui.libraryFrequency)
       [] field = "librarySource" -> hasUi /\ isLibrarySource(ui.librarySource)
SyncedFields ==
  {"boards", "customGoals", "currentBoardId", "generationFrequency", "boardSize",
   "customOnly", "customFrequency", "libraryFrequency", "librarySource"}
\* the document's boards, the current one marked celebrated if it holds a line
BoardsOnceCelebrated(data) ==
  LET adopted == [boards |-> SeqMap(normalizeBoard, data.boards),
                  currentBoardId |-> IF "currentBoardId" \in data.has
                                     THEN data.currentBoardId ELSE Null]
      current == BoardOf(adopted)
  IN IF current # <<>> /\ hasBingo(current[1].goals, getBoardSize(current))
     THEN SetCelebrated(adopted.boards, current[1].id) ELSE adopted.boards

\* C4 as stated: a snapshot step leaves every field the document holds validly
\* equal to the document's value, and dispatches no write.
C4_AdoptsPayloadExactly ==
  [][ \A snapshot \in Snapshots \ {Absent} :
        onSnapshot(snapshot) =>
          /\ \A field \in SyncedFields \ {"boards"} :
               ValidField(snapshot.data, field) => AdoptsField(state', snapshot.data, field)
          /\ ValidField(snapshot.data, "boards") =>
               state'.boards = SeqMap(normalizeBoard, snapshot.data.boards)
          /\ fx'.dispatched = <<>>
    ]_vars

\* C4 (amended): a snapshot step, the second of two as well as the first,
\* leaves every field the document holds validly equal to the document's
\* value, except that the bingo effect marks the adopted current board
\* celebrated when it holds a completed line; no write is dispatched.
C4_AdoptsPayloadUpToCelebration ==
  [][ \A snapshot \in Snapshots \ {Absent} :
        onSnapshot(snapshot) =>
          /\ \A field \in SyncedFields \ {"boards"} :
               ValidField(snapshot.data, field) => AdoptsField(state', snapshot.data, field)
          /\ ValidField(snapshot.data, "boards") =>
               state'.boards = BoardsOnceCelebrated(snapshot.data)
          /\ fx'.dispatched = <<>>
    ]_vars

\* two snapshots were applied within one suppression window, the second one
\* holding a completed line: the line was celebrated and nothing was written
C4_Witness ==
  /\ remote.timers = 2 /\ refs.applyingRemote
  /\ state.boards # <<>> /\ state.boards[1].id = 21 /\ state.boards[1].celebrated
  /\ fx.celebrations = 1 /\ fx.dispatched = <<>>
  /\ state.librarySource = "custom"

\* C5: once the suppression window is over, no change made on this device
\* since the baseline was loaded is left without a write that carries it.
C5_LocalChangesGetWritten ==
  ~(remote.timers = 0 /\ fx.unsent = << SyncDeps(state) >>)

\* C6: a snapshot step adopts each field that is present and valid (the boards
\* up to the celebration of a completed line) and retains the prior value of
\* each field that is missing or invalid.
C6_InvalidFieldsRetained ==
  [][ \A snapshot \in Snapshots \ {Absent} :
        onSnapshot(snapshot) =>
          \A field \in SyncedFields :
            IF ValidField(snapshot.data, field)
            THEN IF field = "boards" THEN state'.boards = BoardsOnceCelebrated(snapshot.data)
                 ELSE AdoptsField(state', snapshot.data, field)
            ELSE RetainsField(state, state', field)
    ]_vars

\* C7: no step leaves local storage changed while the initial load has not
\* completed; once it has, after every step the value under the storage key
\* is the serialization of the in-memory snapshot.
C7_StorageFollowsState ==
  [][ /\ ~state'.hasLoaded => localStorage' = localStorage
      /\ state'.hasLoaded => localStorage'[STORAGE_KEY] = StoredSnapshot(state')
    ]_vars

\* a board adopted from a remote snapshot is on disk while the suppression
\* flag is still up
C7_Witness ==
  /\ state.hasLoaded /\ refs.applyingRemote
  /\ state.boards # <<>> /\ state.boards[1].id = 21
  /\ localStorage[STORAGE_KEY] = StoredSnapshot(state)
  /\ localStorage[STORAGE_KEY].data.boards[1].id = 21

\* C9: currentBoardId is null or the id of a board in boards.
C9_CurrentBoardExists ==
  state.currentBoardId = Null \/ state.currentBoardId \in IdsOf(state.boards)

\* ----------------------------------------- specification: board generation
\* the library holds one custom weekly goal, or ten of them (more than a
\* 3x3 board takes)
CustomLibrary(count) ==
  [i \in 1..count |-> MkTemplate(500 + i, GoalTexts[(i % 3) + 1], "weekly")] \o <<>>
GenStores ==
  { [StoredBoards(<<>>, Null) EXCEPT !.data.customGoals = CustomLibrary(count)] :
      count \in {1, 10} }
\* the sizes the size handler is called with: the select's options, and a
\* number outside them
SizeInputs == BoardSizes \cup {7}

\* the state and the storage after the first commit
Loaded(stored) ==
  LET storage == [k \in StorageKeys |-> IF k = STORAGE_KEY THEN stored ELSE Absent]
  IN Settle(InitialState(FALSE), MountState(InitialState(FALSE), storage, <<>>),
            {"boards", "customGoals"}, InitialRefs,
            [storage |-> ClearOnParseError(storage), pending |-> 0,
             dispatched |-> <<>>, celebrations |-> 0],
            FALSE)
\* ... and after a handler that left the state `cur`
After(res, cur) == Settle(res.s, cur, {}, res.r, res.o, FALSE)

\* The settings a generation starts from: the state after the user set the
\* frequency, the board size (or left it alone), the custom-only box and
\* the title, unticked a custom goal and cleared the suggested goals, or
\* left any of them as loaded.  Each step takes the commit before it.
WithFrequency(res, frequency) ==
  IF frequency = res.s.generationFrequency THEN res
  ELSE After(res, GenerationFrequencyChanged(res.s, frequency))
WithBoardSize(res, sizes) ==
  IF sizes = <<>> THEN res ELSE After(res, BoardSizeChanged(res.s, sizes[1]))
WithCustomOnly(res, customOnly) ==
  IF customOnly = res.s.customOnly THEN res
  ELSE After(res, CustomOnlyChanged(res.s, customOnly))
WithBoardTitle(res, title) ==
  IF title = res.s.boardTitle THEN res ELSE After(res, BoardTitleChanged(res.s, title))
WithCustomUnticked(res, unticked) ==
  IF unticked = {} THEN res
  ELSE After(res, CustomSelectionToggled(res.s, CHOOSE id \in unticked : TRUE))
WithSuggestedCleared(res, cleared) ==
  IF cleared THEN After(res, SuggestedCleared(res.s)) ELSE res

GenSettings(stored, frequency, sizes, customOnly, title, unticked, cleared) ==
  WithSuggestedCleared(
    WithCustomUnticked(
      WithBoardTitle(
        WithCustomOnly(
          WithBoardSize(WithFrequency(Loaded(stored), frequency), sizes),
          customOnly),
        title),
      unticked),
    cleared)

\* the program in the state the commit `res` left
StartsFrom(res) ==
  /\ state = res.s
  /\ refs = res.r
  /\ localStorage = res.o.storage
  /\ remote = [isFirebaseConfigured |-> FALSE, url |-> <<>>,
               pendingWrites |-> 0, timers |-> 0, subscriptions |-> 0,
               authListener |-> FALSE]
  /\ fx = [celebrations |-> 0, dispatched |-> <<>>, unsent |-> <<>>]
  /\ nextId = 1
  /\ lib = Unmounted
  /\ boardHistory = BoardHistoryInitial

InitGen ==
  \E stored \in GenStores, frequency \in {"weekly", "monthly"},
     sizes \in {<<>>} \cup {<< size >> : size \in SizeInputs},
     customOnly \in BOOLEAN, title \in {"Goal Bingo", " "},
     unticked \in {{}, {501}}, cleared \in BOOLEAN :
    StartsFrom(GenSettings(stored, frequency, sizes, customOnly, title, unticked, cleared))

NextGen ==
  \/ handleGenerateBoard
  \/ \E goalId \in FirstTileIds : toggleGoal(goalId)

SpecGen == InitGen /\ [][NextGen]_vars

\* ------------------------------------------ specification: the goals tab
\* the same settings, reached by the handlers one at a time
InitSettings == \E stored \in GenStores : InitEnv(stored, Absent, FALSE, <<>>)

NextSettings ==
  \/ Mount
  \/ \E value \in SizeInputs : onBoardSizeChange(value)
  \/ \E value \in {"weekly", "monthly"} : onGenerationFrequencyChange(value)
  \/ \E value \in BOOLEAN : onCustomOnlyChange(value)
  \/ \E value \in {"Goal Bingo", " "} : onBoardTitleChange(value)
  \/ handleToggleCustomSelection(501)
  \/ handleSelectAllSuggested
  \/ handleClearSuggested
  \/ handleGenerateBoard

SpecSettings == InitSettings /\ [][NextSettings]_vars

\* the goals a generation step may put on the first `count` tiles
CheckedTemplates == Range(customChecked) \cup Range(suggestedChecked)
SelectedCount(totalTiles) ==
  LET fromCustom == Min({totalTiles, Len(customChecked)})
  IN fromCustom + (IF state.customOnly THEN 0
                   ELSE Min({totalTiles - fromCustom, Len(suggestedChecked)}))

AddTexts == {"Read", "READ", "Try a new recipe", " "}

InitLibrary == InitEnv(Absent, Absent, FALSE, <<>>)

NextLibrary ==
  \/ Mount
  \/ \E customText \in AddTexts : handleAddCustomGoal(customText)
  \/ \E value \in BOOLEAN : onCustomOnlyChange(value)
  \/ handleToggleCustomSelection(FreshId(1))
  \/ handleGenerateBoard

SpecLibrary == InitLibrary /\ [][NextLibrary]_vars

\* the keys of the non-empty goals of a board, one per tile
KeysOnBoard(b) ==
  [i \in {j \in DOMAIN b.goals : b.goals[j].text # ""} |->
     getGoalKey(b.goals[i].frequency, b.goals[i].text)]
KeysOf(templates) == {getGoalKey(t.frequency, t.text) : t \in Range(templates)}

\* C11: on the board a generation step builds, no two non-empty goals have
\* the same goal key, and every non-empty goal has the text of a checked
\* template.
C11_NoDuplicateKeys ==
  [][ handleGenerateBoard =>
        LET keys == KeysOnBoard(state'.boards[1])
        IN /\ \A i, j \in DOMAIN keys : i # j => keys[i] # keys[j]
           /\ \A i \in DOMAIN keys :
                \E picked \in CheckedTemplates : picked.text = state'.boards[1].goals[i].text
    ]_vars

\* C13: while customOnly is set, every non-empty goal of the board a
\* generation step builds has the key of a checked custom goal.
C13_CustomOnlyTakesNoSuggestion ==
  [][ (handleGenerateBoard /\ state.customOnly) =>
        LET keys == KeysOnBoard(state'.boards[1])
        IN \A i \in DOMAIN keys : keys[i] \in KeysOf(customChecked)
    ]_vars

\* customOnly was set with suggested goals checked and one custom goal: the
\* board holds the custom goal and nothing else
C13_Witness ==
  /\ state.customOnly /\ state.boards # <<>>
  /\ state.selectedSuggestedIds # {}
  /\ Len(state.customGoals) = 1
  /\ state.boards[1].goals[1].text = "Read"
  /\ \A i \in 2..Len(state.boards[1].goals) : state.boards[1].goals[i].text = ""

\* ------------------------------------------ specification: winning lines
\* the lines of a size x size grid as the contract enumerates them: rows
\* top to bottom, columns left to right, main diagonal, anti-diagonal
EnumeratedLines(size) ==
  [n \in 1..(2 * size + 2) |->
     IF n <= size THEN [k \in 1..size |-> (n - 1) * size + (k - 1)]
     ELSE IF n <= 2 * size THEN [k \in 1..size |-> (k - 1) * size + (n - size - 1)]
     ELSE IF n = 2 * size + 1 THEN [k \in 1..size |-> (k - 1) * (size + 1)]
     ELSE [k \in 1..size |-> k * (size - 1)]]

\* the cells a stored board holds completed: none, one line, two lines, or a
\* line short of its first cell
DonePatterns(size) ==
  LET cells(n) == Range(EnumeratedLines(size)[n])
      L == 1..(2 * size + 2)
  IN {{}} \cup {cells(n) \cup cells(m) : n, m \in L}
          \cup {cells(n) \ {EnumeratedLines(size)[n][1]} : n \in L}

\* a stored board with these cells completed, the first goal through its
\* two subgoals; it was celebrated when it holds a completed line
WithCompleted(plain, done) ==
  [plain EXCEPT
     !.goals = [i \in DOMAIN @ |->
                  [@[i] EXCEPT !.completed = (i - 1) \in done,
                               !.subgoals = IF i = 1
                                            THEN << MkSubgoal(1, "Warm up", 0 \in done),
                                                    MkSubgoal(2, "Run", 0 \in done) >>
                                            ELSE <<>>]] \o <<>>,
     !.celebrated = \E n \in 1..(2 * plain.size + 2) :
                      Range(EnumeratedLines(plain.size)[n]) \subseteq done]
LineBoard(size, done) == WithCompleted(PlainBoard(11, size, "weekly"), done)
\* a second stored board, with its first row completed and celebrated
OtherBoard == WithCompleted(PlainBoard(12, 4, "monthly"), {0, 1, 2, 3})
\* ... one of the stores has no board selected
LineStores ==
  UNION { { StoredBoards(<< LineBoard(size, done), OtherBoard >>, 11) :
              done \in DonePatterns(size) } :
            size \in BoardSizes }
  \cup { StoredBoards(<< LineBoard(3, {0, 1, 2}), OtherBoard >>, Null) }

InitLines == \E stored \in LineStores : InitEnv(stored, Absent, FALSE, <<>>)

NextLines ==
  \/ Mount
  \/ \E goalId \in FirstTileIds : toggleGoal(goalId)
  \/ handleResetProgress

SpecLines == InitLines /\ [][NextLines]_vars

\* C14: the highlighted line of the current board is the first line, in the
\* order rows, columns, main diagonal, anti-diagonal, all of whose cells hold
\* a completed goal, and none when there is no such line; hasBingo is true
\* exactly when there is one.
C14_FirstCompletedLine ==
  (state.hasLoaded /\ board # <<>>) =>
    LET size == board[1].size
        lines == EnumeratedLines(size)
        full == {n \in DOMAIN lines :
                   \A k \in 1..size : board[1].goals[lines[n][k] + 1].completed}
    IN /\ hasBingo(board[1].goals, size) <=> full # {}
       /\ state.bingoActive <=> full # {}
       /\ full = {} => state.bingoLine = <<>>
       /\ full # {} => \E n \in full : /\ \A m \in full : n <= m
                                        /\ state.bingoLine = lines[n]

\* a 4x4 board holds its second column and its main diagonal completed and no
\* row: the column is the line
C14_Witness ==
  /\ state.hasLoaded /\ board # <<>> /\ board[1].size = 4
  /\ {i \in 1..16 : board[1].goals[i].completed} = {2, 6, 10, 14} \cup {1, 6, 11, 16}
  /\ state.bingoLine = << 1, 5, 9, 13 >>

\* C15: for the size of the current board (3, 4 or 5) getBingoLines gives
\* 2 * size + 2 lines: the rows, the columns, the main diagonal i * (size + 1)
\* and the anti-diagonal (i + 1) * (size - 1); each has `size` indices, all
\* in [0, size * size), none twice.
C15_LinesOfTheGrid ==
  (state.hasLoaded /\ board # <<>>) =>
    LET size == board[1].size
        lines == getBingoLines(size)
    IN /\ Len(lines) = 2 * size + 2
       /\ \A n \in DOMAIN lines :
            /\ Len(lines[n]) = size
            /\ \A k \in 1..size : lines[n][k] >= 0 /\ lines[n][k] < size * size
            /\ \A k, l \in 1..size : k # l => lines[n][k] # lines[n][l]
       /\ \A r \in 1..size : lines[r] = [c \in 1..size |-> (r - 1) * size + (c - 1)]
       /\ \A c \in 1..size : lines[size + c] = [r \in 1..size |-> (r - 1) * size + (c - 1)]
       /\ lines[2 * size + 1] = [i \in 1..size |-> (i - 1) * (size + 1)]
       /\ lines[2 * size + 2] = [i \in 1..size |-> i * (size - 1)]

\* a 5x5 board whose anti-diagonal alone is completed shows that line
C15_Witness ==
  /\ state.hasLoaded /\ board # <<>> /\ board[1].size = 5
  /\ state.bingoLine = << 4, 8, 12, 16, 20 >>
  /\ state.bingoLine = getBingoLines(5)[12]

\* C16: a handleResetProgress step leaves the current board not celebrated,
\* with every goal incomplete and so without a completed line, and with its
\* id, title, size, creation time, goal order, goal ids and goal texts as
\* they were; every other board, the order of the boards and the current
\* board id are as they were.
C16_ResetClearsProgressOnly ==
  [][ handleResetProgress =>
        /\ state'.currentBoardId = state.currentBoardId
        /\ Len(state'.boards) = Len(state.boards)
        /\ \A b \in DOMAIN state.boards :
             LET old == state.boards[b]
                 new == state'.boards[b]
             IN IF old.id # state.currentBoardId THEN new = old
                ELSE /\ ~new.celebrated
                     /\ new.id = old.id /\ new.title = old.title /\ new.size = old.size
                     /\ new.createdAt = old.createdAt
                     /\ Len(new.goals) = Len(old.goals)
                     /\ \A g \in DOMAIN old.goals :
                          /\ ~new.goals[g].completed
                          /\ new.goals[g].id = old.goals[g].id
                          /\ new.goals[g].text = old.goals[g].text
                          /\ new.goals[g].frequency = old.goals[g].frequency
                     /\ \A n \in DOMAIN EnumeratedLines(new.size) :
                          \E k \in 1..new.size :
                            ~new.goals[EnumeratedLines(new.size)[n][k] + 1].completed
        /\ state'.bingoLine = <<>> /\ ~state'.bingoActive
    ]_vars

\* the progress of the current board was reset after its first goal had been
\* completed (its subgoals are still done): nothing is completed, the board
\* is not celebrated, the other board is as stored
C16_Witness ==
  /\ state.hasLoaded /\ board # <<>> /\ board[1].size = 5
  /\ ~board[1].celebrated /\ \A g \in DOMAIN board[1].goals : ~board[1].goals[g].completed
  /\ \A i \in DOMAIN board[1].goals[1].subgoals : board[1].goals[1].subgoals[i].done
  /\ state.bingoLine = <<>>
  /\ state.boards[2] = OtherBoard

\* C20: updateCurrentBoard(updater) leaves the boards as they are when no
\* board is selected; a step of a handler that calls it (toggleGoal,
\* handleResetProgress) replaces the current board by updater(board), the
\* celebration of a line it completes aside, and leaves every other board,
\* the order of the boards and currentBoardId as they were.
C20_UpdatesCurrentBoardOnly ==
  /\ [](board = <<>> => UpdateCurrentBoard(ResetBoard) = state.boards)
  /\ [][ \A goalId \in FirstTileIds :
           (toggleGoal(goalId) \/ handleResetProgress) =>
             /\ state'.currentBoardId = state.currentBoardId
             /\ Len(state'.boards) = Len(state.boards)
             /\ \A b \in DOMAIN state.boards :
                  LET old == state.boards[b]
                      new == state'.boards[b]
                      toggled == [old EXCEPT !.goals =
                                    [g \in DOMAIN @ |-> IF @[g].id = goalId
                                                        THEN ToggledGoal(@[g]) ELSE @[g]]]
                  IN /\ new.id = old.id
                     /\ old.id # state.currentBoardId => new = old
                     /\ old.id = state.currentBoardId =>
                          \/ handleResetProgress /\ new = ResetBoard(old)
                          \/ toggleGoal(goalId) /\ [new EXCEPT !.celebrated = FALSE]
                                                     = [toggled EXCEPT !.celebrated = FALSE]
       ]_vars

\* the first tile of the current 3x3 board was toggled to completed while the
\* other board keeps its completed first row
C20_Witness ==
  /\ state.hasLoaded /\ board # <<>> /\ board[1].size = 3
  /\ {g \in 1..9 : board[1].goals[g].completed} = {1, 5, 9}
  /\ board[1].celebrated /\ fx.celebrations = 1
  /\ state.boards[2] = OtherBoard

\* ------------------------------- specification: the recently-incomplete pool
\* a history of two boards; the newer one holds "Read" completed, "Run" with
\* one subgoal left and a monthly "Cook", the older one the same keys in
\* other spellings and states
NewerBoard ==
  MkBoard(21, "Goal Bingo", 21,
          [i \in 1..9 |->
             CASE i = 1 -> MkGoal(2101, "Read", "weekly", TRUE, <<>>, Null)
               [] i = 2 -> MkGoal(2102, "Run", "weekly", FALSE,
                                  << MkSubgoal(1, "Warm up", TRUE),
                                     MkSubgoal(2, "Cool down", FALSE) >>, Null)
               [] i = 3 -> MkGoal(2103, "Cook", "monthly", FALSE, <<>>, 502)
               [] OTHER -> MkGoal(2100 + i, "", "weekly", FALSE, <<>>, Null)] \o <<>>,
          3, FALSE)
OlderBoard ==
  MkBoard(20, "Goal Bingo", 20,
          [i \in 1..9 |->
             CASE i = 1 -> MkGoal(2001, "READ", "weekly", FALSE, <<>>, Null)
               [] i = 2 -> MkGoal(2002, " Stretch ", "weekly", FALSE, <<>>, Null)
               [] i = 3 -> MkGoal(2003, "Run", "weekly", TRUE, <<>>, Null)
               [] OTHER -> MkGoal(2000 + i, "", "weekly", FALSE, <<>>, Null)] \o <<>>,
          3, FALSE)
\* the array holds them in either order
RecentHistories == { << NewerBoard, OlderBoard >>, << OlderBoard, NewerBoard >> }
\* the goals of a board the owner toggles
ToggledTiles == 1..3
DismissedLists == { <<>>, << "weekly:read" >>, << "weekly:read", "weekly:stretch" >> }
RecentLibrary == << MkTemplate(501, "Cook", "weekly"), MkTemplate(502, "Cook", "monthly") >>

InitRecent == InitEnv(Absent, Absent, FALSE, <<>>)

NextRecent ==
  \/ \E boards \in RecentHistories : MountLibrary(boards, "weekly", <<>>)
  \/ \E value \in {"weekly", "monthly"} : GenerationFrequencyProp(value)
  \/ \E b \in 1..2, g \in ToggledTiles : BoardsProp(b, g)
  \/ \E keys \in DismissedLists : DismissedRecentGoalsProp(keys)
  \/ setCustomGoals(RecentLibrary)
  \/ useGoalLibrary_handleToggleCustomSelection(501)
  \/ handleToggleRecentSelection("recent-weekly%3Aread")

SpecRecent == InitRecent /\ [][NextRecent]_vars

\* the keys of the pool the hook offers, in its order
PoolKeys == [i \in DOMAIN lib.recentIncompleteAvailable |->
               getGoalKey(lib.recentIncompleteAvailable[i].frequency,
                          lib.recentIncompleteAvailable[i].text)]
\* the goals of the boards that carry this key in the selected frequency, as
\* <<board, tile>>, and the one of them a newest-first scan meets first
Occurrences(key) ==
  {o \in (DOMAIN lib.boards) \X (1..9) :
     LET goal == lib.boards[o[1]].goals[o[2]]
     IN /\ Trim(goal.text) # "" /\ goal.frequency = lib.generationFrequency
        /\ getGoalKey(goal.frequency, goal.text) = key}
ScannedBefore(o, p) ==
  \/ lib.boards[o[1]].createdAt > lib.boards[p[1]].createdAt
  \/ o[1] = p[1] /\ o[2] < p[2]
MostRecent(key) ==
  lib.boards[(CHOOSE o \in Occurrences(key) :
                \A p \in Occurrences(key) \ {o} : ScannedBefore(o, p))[1]]
     .goals[(CHOOSE o \in Occurrences(key) :
                \A p \in Occurrences(key) \ {o} : ScannedBefore(o, p))[2]]
HistoryKeys ==
  {getGoalKey(f, t) : f \in {"weekly", "monthly"},
                      t \in {"Read", "Run", "Cook", "Stretch"}}

\* C17: a goal key is in the recently-incomplete pool exactly when it is not
\* dismissed, a goal of the selected frequency with a non-empty text carries
\* it, and the one of these goals that a newest-board-first scan meets first
\* is incomplete (a subgoal not done, or not completed when it has no
\* subgoals); the pool holds no key twice.
C17_PoolIsNewestIncomplete ==
  lib.mounted =>
    /\ \A key \in HistoryKeys \cup Range(PoolKeys) :
         (key \in Range(PoolKeys)) <=>
            /\ key \notin Range(lib.dismissedRecentGoals)
            /\ Occurrences(key) # {}
            /\ IF MostRecent(key).subgoals # <<>>
               THEN \E i \in DOMAIN MostRecent(key).subgoals : ~MostRecent(key).subgoals[i].done
               ELSE ~MostRecent(key).completed
    /\ \A i, j \in DOMAIN PoolKeys : i # j => PoolKeys[i] # PoolKeys[j]

\* C18: the recently-incomplete pool the hook offers holds no entry whose
\* goal key is in the current dismissed set.
C18_NoDismissedKeyInPool ==
  lib.mounted => Range(PoolKeys) \cap Range(lib.dismissedRecentGoals) = {}

HistoryTexts == {"Read", "Stretch"}

InitHistory == InitEnv(StoredBoards(<< PlainBoard(11, 3, "weekly") >>, 11), Absent, FALSE, <<>>)

NextHistory ==
  \/ Mount
  \/ \E customText \in HistoryTexts : handleAddCustomGoal(customText)
  \/ \E value \in BOOLEAN : onCustomOnlyChange(value)
  \/ \E goalId \in FirstTileIds : toggleGoal(goalId)
  \/ handleGenerateBoard

SpecHistory == InitHistory /\ [][NextHistory]_vars

\* the band of a key: 1 recent and custom, 2 recent and suggested but not
\* custom, 3 recent only, 4 custom only, 5 suggested only
BandOf(key, recent, custom, suggested) ==
  IF key \in recent
  THEN (IF key \in custom THEN 1 ELSE IF key \in suggested THEN 2 ELSE 3)
  ELSE (IF key \in custom THEN 4 ELSE 5)
PriorityHolds(placed, recent, custom, suggested) ==
  \A key \in placed, higher \in recent \cup custom \cup suggested :
    BandOf(higher, recent, custom, suggested) < BandOf(key, recent, custom, suggested)
      => higher \in placed

\* C12: the board a generation step builds respects the band priority
\* (recent and custom, recent and suggested but not custom, recent only,
\* custom only, suggested only; the recent goals being the recently-incomplete
\* pool of the stored boards, all checked, and the suggested ones left out
\* under customOnly): when it holds a key of one band, it holds every key of
\* every band of higher priority.
C12_BandPriority ==
  [][ handleGenerateBoard =>
        PriorityHolds(Range(KeysOnBoard(state'.boards[1])),
                      KeysOf(recentIncompleteAvailableOf(state.boards,
                                                         state.generationFrequency, <<>>)),
                      KeysOf(customChecked),
                      IF state.customOnly THEN {} ELSE KeysOf(suggestedChecked))
    ]_vars

SharedBoards ==
  { WithCompleted(PlainBoard(11, 3, "weekly"), {0, 1, 2}),
    [PlainBoard(31, 3, "weekly") EXCEPT !.goals[1].sourceGoalId = 501,
                                        !.goals[1].completed = TRUE],
    [PlainBoard(32, 4, "monthly") EXCEPT !.size = 0] }
\* what else the ?board= parameter may hold: no base64; base64 of a broken
\* percent-encoding; of no JSON; of null, of a number, of objects without
\* goals, with no goal, with a text for goals
MalformedParams ==
  { [kind |-> "text"],
    btoa([kind |-> "text"]),
    btoa(encodeURIComponentText([kind |-> "text"])),
    btoa(encodeURIComponentText([kind |-> "json", value |-> JsonNull])),
    btoa(encodeURIComponentText([kind |-> "json", value |-> [type |-> "number"]])),
    btoa(encodeURIComponentText([kind |-> "json",
                                 value |-> JsonObject([title |-> "Goal Bingo"])])),
    btoa(encodeURIComponentText([kind |-> "json",
                                 value |-> JsonObject([title |-> "Goal Bingo",
                                                       goals |-> <<>>])])),
    btoa(encodeURIComponentText([kind |-> "json",
                                 value |-> JsonObject([goals |-> << [char |-> "a"],
                                                                    [char |-> "b"],
                                                                    [char |-> "c"] >>])])) }
\* the stored board has a goal from the custom library
SharedStores ==
  { Absent,
    StoredBoards(<< [PlainBoard(11, 3, "weekly") EXCEPT !.goals[1].sourceGoalId = 501] >>,
                 11) }

InitShared ==
  \E stored \in SharedStores,
     url \in {<< encodeBoard(b) >> : b \in SharedBoards} \cup {<< e >> : e \in MalformedParams} :
    InitEnv(stored, Absent, FALSE, url)

NextShared ==
  \/ Mount
  \/ handleUseSharedBoard
  \/ \E goalId \in FirstTileIds : toggleGoal(goalId)
  \/ handleResetProgress

SpecShared == InitShared /\ [][NextShared]_vars

\* C21: accepting the shared board puts first, and makes current, a copy of
\* it whose id is neither the shared board's nor that of a board in the
\* store, whose createdAt is the time of the step and which is not
\* celebrated (unless the bingo effect of the same commit celebrates a line
\* it holds); the boards of the store have distinct ids.
C21_AcceptInsertsNewBoard ==
  /\ [][ handleUseSharedBoard =>
           /\ Len(state'.boards) = Len(state.boards) + 1
           /\ Tail(state'.boards) = state.boards
           /\ state'.boards[1].id # state.sharedBoard[1].id
           /\ state'.boards[1].id \notin IdsOf(state.boards)
           /\ state'.boards[1].createdAt = nextId
           /\ state'.currentBoardId = state'.boards[1].id
           /\ [state'.boards[1] EXCEPT !.celebrated = FALSE]
                = SharedBoardCopy(state.sharedBoard[1], state'.boards[1].id, nextId)
           /\ state'.boards[1].celebrated => fx'.celebrations = 1
       ]_vars
  /\ [](\A i, j \in DOMAIN state.boards : i # j => state.boards[i].id # state.boards[j].id)

\* the shared board, which has the id of the stored one, was accepted twice
C21_Witness ==
  /\ Len(state.boards) = 3
  /\ state.boards[1].id = FreshId(2) /\ state.boards[2].id = FreshId(1)
  /\ state.boards[3].id = 11 /\ state.sharedBoard[1].id = 11
  /\ state.currentBoardId = FreshId(2)
  /\ state.boards[1].goals = state.boards[2].goals

C28_MalformedPayloadIgnored ==
  (state.hasLoaded /\ remote.url # <<>> /\ remote.url[1] \in MalformedParams) =>
     /\ state.sharedBoard = <<>>
     /\ \A i \in DOMAIN state.boards : state.boards[i].id = 11

\* ------------------------------------------------ BoardHistory: file import
\* JSON.parse(String(reader.result ?? '')): throws on a text that is not JSON
JSONparse(text) ==
  IF text.kind = "json" THEN [ok |-> TRUE, value |-> text.value] ELSE [ok |-> FALSE]

\* (a validation that only asks for a boards property)
IsInvalidData_AnyBoards(parsed) ==
  \/ parsed.type # "object"
  \/ "boards" \notin DOMAIN parsed.props

\* !parsed || typeof parsed !== 'object' || !Array.isArray(parsed.boards):
\* null, 0 and "" are falsy; an array is an object without a boards property
IsInvalidData(parsed) ==
  \/ parsed.type = "null"
  \/ parsed.type = "number" /\ parsed.n = 0
  \/ parsed.type = "string" /\ parsed.chars = ""
  \/ parsed.type \notin {"object", "array"}
  \/ parsed.type = "array"
  \/ "boards" \notin DOMAIN parsed.props
  \/ ~ArrayisArray(parsed.props.boards)

ImportFailedMessage == "Import failed. Please use a valid export file."
ImportCompleteMessage == "Import complete."

\* onImportData: the store and the custom goals are replaced by the file's,
\* nothing of the prior ones is kept
onImportData(s, props) ==
  [s EXCEPT
     !.boards = IF ArrayisArray(props.boards)
                THEN SeqMap(normalizeBoard, props.boards.items) ELSE <<>>,
     !.currentBoardId = IF "currentBoardId" \in DOMAIN props THEN props.currentBoardId
                        ELSE Null,
     !.customGoals = IF "customGoals" \in DOMAIN props /\ ArrayisArray(props.customGoals)
                     THEN normalizeCustomGoals(props.customGoals.items) ELSE <<>>]

\* the onChange of the file input, when the FileReader has loaded `file`
onImportFileChange(file) ==
  /\ state.hasLoaded /\ NoModal
  /\ IF ~JSONparse(file).ok \/ IsInvalidData(JSONparse(file).value)
     THEN /\ boardHistory' = [importMessage |-> << ImportFailedMessage >>, importError |-> TRUE]
          /\ fx' = [fx EXCEPT !.celebrations = 0, !.dispatched = <<>>]
          /\ UNCHANGED <<state, refs, localStorage, remote, nextId, lib>>
     ELSE /\ AppCommitted(Settle(state, onImportData(state, JSONparse(file).value.props),
                                 {"boards", "customGoals"}, refs,
                                 [storage |-> localStorage, pending |-> remote.pendingWrites,
                                  dispatched |-> <<>>, celebrations |-> 0],
                                 remote.isFirebaseConfigured),
                          {"boards", "customGoals"}, remote, TRUE)
          /\ nextId' = nextId
          /\ boardHistory' = [importMessage |-> << ImportCompleteMessage >>, importError |-> FALSE]

\* files that are not an export: no JSON, null, a number, an array, objects
\* without boards or with boards that is no array
InvalidImportFiles ==
  { [kind |-> "text"],
    [kind |-> "json", value |-> JsonNull],
    [kind |-> "json", value |-> JsonNumber(5)],
    [kind |-> "json", value |-> JsonArray(<< PlainBoard(12, 4, "monthly") >>)],
    [kind |-> "json", value |-> JsonObject([currentBoardId |-> 12])],
    [kind |-> "json", value |-> JsonObject([boards |-> JsonNull, currentBoardId |-> 12])],
    [kind |-> "json",
     value |-> JsonObject([boards |-> JsonString("not-an-array"), currentBoardId |-> 12])] }
ExportFiles ==
  { [kind |-> "json",
     value |-> JsonObject([boards |-> JsonArray(<< PlainBoard(12, 4, "monthly") >>),
                           currentBoardId |-> 12, customGoals |-> JsonArray(<<>>)])] }

InitImport ==
  InitEnv(StoredBoards(<< PlainBoard(11, 3, "weekly") >>, 11), Absent, FALSE, <<>>)

NextImport ==
  \/ Mount
  \/ \E file \in InvalidImportFiles \cup ExportFiles : onImportFileChange(file)
  \/ \E goalId \in TapIds : toggleGoal(goalId)
  \/ handleResetProgress

SpecImport == InitImport /\ [][NextImport]_vars

\* C22: importing a file that is not JSON, or whose JSON is not an object
\* with an array-valued boards, changes neither the state of the app nor
\* the storage, and shows the failure message as an error.
C22_InvalidImportRejected ==
  [][ \A file \in InvalidImportFiles :
        onImportFileChange(file) =>
          /\ state' = state /\ localStorage' = localStorage
          /\ boardHistory' = [importMessage |-> << ImportFailedMessage >>, importError |-> TRUE]
    ]_vars

\* an import was refused after an export file had replaced the store and a
\* tile of the imported board had been completed
C22_Witness ==
  /\ boardHistory.importError /\ boardHistory.importMessage = << ImportFailedMessage >>
  /\ IdsOf(state.boards) = {12} /\ state.currentBoardId = 12
  /\ \E i \in DOMAIN state.boards[1].goals : state.boards[1].goals[i].completed

\* --------------------------------------------------- misshapen stored value
\* stored values that are not a StoredData nor a legacy board: a text that
\* is no JSON, a number, an object without boards, with boards a number,
\* with boards an array and customGoals a number
MisshapenValues ==
  { [kind |-> "garbage"],
    [kind |-> "json", value |-> JsonNumber(5)],
    [kind |-> "json", value |-> JsonObject([version |-> 1])],
    [kind |-> "json", value |-> JsonObject([boards |-> JsonNumber(5), currentBoardId |-> 11])],
    [kind |-> "json",
     value |-> JsonObject([boards |-> JsonArray(<< PlainBoard(11, 3, "weekly") >>),
                           currentBoardId |-> 11, customGoals |-> JsonNumber(5)])] }
LoadStores ==
  {<< value, Absent >> : value \in MisshapenValues}
  \cup {<< Absent, value >> : value \in MisshapenValues}
  \cup { << StoredBoards(<< PlainBoard(11, 3, "weekly") >>, 11), Absent >> }

InitLoad == \E stored \in LoadStores : InitEnv(stored[1], stored[2], FALSE, <<>>)

NextLoad ==
  \/ Mount
  \/ \E goalId \in TapIds : toggleGoal(goalId)
  \/ handleResetProgress

SpecLoad == InitLoad /\ [][NextLoad]_vars

\* C23: when the value the load effect reads is misshapen, the load leaves
\* hasLoaded set, no board, no current board and no custom goal, and no
\* storage key holds a misshapen value any more.
C23_MisshapenValueCleared ==
  [][ (Mount /\ StoredItem(localStorage) \in MisshapenValues) =>
        /\ state'.hasLoaded
        /\ state'.boards = <<>> /\ state'.currentBoardId = Null
        /\ state'.customGoals = <<>>
        /\ \A k \in StorageKeys : localStorage'[k] \notin MisshapenValues
    ]_vars

\* C24: the syncing flag is set whenever a dispatched write is unresolved,
\* a step that dispatches a write leaves the flag set, and the callback of
\* a write sets the status to 'Synced' on success and 'Sync error' on failure.
C24_SyncingBracketsWrites ==
  /\ [](remote.pendingWrites > 0 => refs.syncing)
  /\ [][ /\ fx'.dispatched # <<>> => refs'.syncing
         /\ \A syncStatus \in {"Synced", "Sync error"} :
              WriteSettles(syncStatus) => state'.syncStatus = syncStatus
     ]_vars

\* C25: the step in which a write fails dispatches no write; every step that
\* dispatches a write changed the synced state, and the write carries the
\* snapshot of the state the step left.
C25_FailedWriteNotRetried ==
  [][ /\ WriteSettles("Sync error") => fx'.dispatched = <<>>
      /\ fx'.dispatched # <<>> =>
           /\ SyncDeps(state') # SyncDeps(state)
           /\ \A i \in DOMAIN fx'.dispatched : fx'.dispatched[i].doc = PushPayload(state')
    ]_vars

\* a write of a completed tile failed: nothing is in flight, nothing was
\* dispatched by the failure, and the tile is still completed
C25_Witness ==
  /\ state.syncStatus = "Sync error" /\ ~refs.syncing
  /\ remote.pendingWrites = 0 /\ fx.dispatched = <<>>
  /\ state.boards # <<>> /\ state.boards[1].goals[1].completed

\* ------------------------------------------------------------------ unmount
\* a session in which the user can change (sign-out, anonymous sign-in
\* again) and the app is closed at any time
SessionUsers == {7, 8}

InitUnmount ==
  InitEnv(StoredBoards(<< PlainBoard(11, 3, "weekly") >>, 11), Absent, TRUE, <<>>)

NextUnmount ==
  \/ Mount
  \/ \E user \in SessionUsers \cup {Null} : onAuthStateChanged(user)
  \/ \E snapshot \in Snapshots : remote.authListener /\ onSnapshot(snapshot)
  \/ \E goalId \in FirstTileIds : remote.authListener /\ toggleGoal(goalId)
  \/ TimerFires
  \/ \E syncStatus \in {"Synced", "Sync error"} : WriteSettles(syncStatus)
  \/ Unmount

SpecUnmount == InitUnmount /\ [][NextUnmount]_vars

\* C26: the cleanup releases the auth listener and the document
\* subscriptions in one step, and once the app is unmounted no document
\* subscription is live.
C26_NoSubscriptionAfterUnmount ==
  /\ [][Unmount => ~remote'.authListener /\ remote'.subscriptions = 0]_vars
  /\ [](state.hasLoaded /\ ~remote.authListener => remote.subscriptions = 0)

\* the custom goals whose goal key is that of the goal
MatchingCustom(customGoals, goal) ==
  {c \in Range(customGoals) : getGoalKey(c.frequency, c.text)
                                = getGoalKey(goal.frequency, goal.text)}

\* C31: on the board a generation step builds, a non-empty goal has a
\* sourceGoalId exactly when a custom goal has its goal key, and it is then the
\* id of such a custom goal; an empty tile has none.
C31_SourceIdIffCustomKey ==
  [][ handleGenerateBoard =>
        \A i \in DOMAIN state'.boards[1].goals :
          LET goal == state'.boards[1].goals[i]
              matching == MatchingCustom(state.customGoals, goal)
          IN IF goal.text = "" THEN goal.sourceGoalId = Null
             ELSE /\ goal.sourceGoalId # Null <=> matching # {}
                  /\ goal.sourceGoalId # Null => goal.sourceGoalId \in {c.id : c \in matching}
    ]_vars

\* ------------------------------------------------------------- empty tiles
\* a board as generation leaves it when two goals were checked: the tiles
\* after the second are empty
EmptyTilesBoard ==
  [PlainBoard(11, 3, "weekly") EXCEPT
     !.goals = [i \in DOMAIN @ |-> IF i > 2 THEN [@[i] EXCEPT !.text = ""] ELSE @[i]]]

InitEmpty == InitEnv(StoredBoards(<< EmptyTilesBoard >>, 11), Absent, FALSE, <<>>)

NextEmpty ==
  \/ Mount
  \/ \E goalId \in TapIds : toggleGoal(goalId)
  \/ handleResetProgress

SpecEmpty == InitEmpty /\ [][NextEmpty]_vars

\* the lines of the current board all of whose cells are completed
CompletedLines ==
  {line \in Range(getBingoLines(board[1].size)) :
     \A j \in DOMAIN line : board[1].goals[line[j] + 1].completed}

\* C32: toggleGoal on an empty tile flips its completed flag, and the bingo
\* indicator is on, with a line all of whose cells are completed, exactly
\* when the current board has such a line, empty tiles included.
C32_EmptyTileCounts ==
  /\ [][ \A i \in DOMAIN EmptyTilesBoard.goals :
           (EmptyTilesBoard.goals[i].text = "" /\ toggleGoal(EmptyTilesBoard.goals[i].id)) =>
              /\ BoardOf(state')[1].goals[i].text = ""
              /\ BoardOf(state')[1].goals[i].completed = ~board[1].goals[i].completed
     ]_vars
  /\ [](state.hasLoaded =>
          /\ state.bingoActive <=> CompletedLines # {}
          /\ state.bingoActive => state.bingoLine \in CompletedLines)

\* the first column, one goal and two empty tiles, is the winning line
C32_Witness ==
  /\ state.bingoActive /\ state.bingoLine = << 0, 3, 6 >>
  /\ board[1].goals[4].text = "" /\ board[1].goals[7].text = ""
  /\ board[1].goals[4].completed /\ board[1].goals[7].completed
  /\ board[1].celebrated

\* -------------------------------------------- rearranging while editing
InitRearrangeEdit == InitEnv(EditStore, Absent, FALSE, <<>>)

NextRearrangeEdit ==
  \/ Mount
  \/ \E id \in IdsOf(state.boards) : handleOpenBoard(id)
  \/ handleEnterRearrange
  \/ handleCancelRearrange
  \/ handleSaveRearrange
  \/ \E activeId \in DragIds, overId \in DragIds : handleReorder(activeId, overId)
  \/ \E goalId \in FirstTileIds : handleEditGoal(goalId)
  \/ \E value \in EditTexts : onEditGoalChange(value)
  \/ handleApplyGoalEdit
  \/ handleSaveEditedGoal("skip")

SpecRearrangeEdit == InitRearrangeEdit /\ [][NextRearrangeEdit]_vars

\* C33: a Save of the rearrangement leaves the current board with the goals
\* it had before the Save, in some order (the goals of a board have distinct
\* ids, so: as many goals, and the same set of goals).
C33_SaveOnlyReorders ==
  [][ handleSaveRearrange =>
        /\ Len(BoardOf(state')[1].goals) = Len(board[1].goals)
        /\ Range(BoardOf(state')[1].goals) = Range(board[1].goals)
    ]_vars

\* C34: while the delay of some applied emission is still running (its
\* timer has not fired), the suppression flag is on; the timer of an earlier
\* emission leaves it on when a later emission's timer is pending.
C34_SuppressedForFullDelay ==
  /\ [](remote.timers > 0 => refs.applyingRemote)
  /\ [][(TimerFires /\ remote.timers > 1) => refs'.applyingRemote]_vars

\* ------------------------------------------- the first emission: no document
\* a stored board the user may tap at any time, or never; the remote
\* document does not exist
InitBaseline ==
  InitEnv(StoredBoards(<< PlainBoard(11, 3, "weekly") >>, 11), Absent, TRUE, <<>>)

NextBaseline ==
  \/ Mount
  \/ \E goalId \in TapIds : toggleGoal(goalId)
  \/ \E user \in Users \cup {Null} : refs.userId = Null /\ onAuthStateChanged(user)
  \/ onSnapshot(Absent)
  \/ \E syncStatus \in {"Synced", "Sync error"} : WriteSettles(syncStatus)

\* the backend goes on reporting the (missing) document and the callback of
\* a write in flight arrives; the user's taps are not owed
SpecBaseline ==
  /\ InitBaseline /\ [][NextBaseline]_vars
  /\ WF_vars(onSnapshot(Absent))
  /\ WF_vars(\E syncStatus \in {"Synced", "Sync error"} : WriteSettles(syncStatus))

\* C35: if an emission without document marks the baseline loaded, then a
\* write of the local snapshot is dispatched at some time (the status leaves
\* 'Connecting' / 'Connected' for that of a write).
C35_SnapshotEventuallyWritten ==
  <>(refs.remoteLoaded) => <>(state.syncStatus \in {"Syncing...", "Synced", "Sync error"})

\* C36: after every step the bingo indicator is on exactly when there is a
\* current board and it has a winning line, and the highlighted line is then
\* that board's first winning line and is none otherwise.
C36_IndicatorMatchesBoard ==
  /\ state.bingoActive <=> (board # <<>> /\ hasBingo(board[1].goals, getBoardSize(board)))
  /\ state.bingoLine = IF board = <<>> THEN <<>>
                       ELSE getBingoLine(board[1].goals, getBoardSize(board))

\* ------------------------------------- editing a text with two boards stored
\* the library holds the template of the first goal and another one
EditFrameStore ==
  [EditStore EXCEPT !.data.customGoals = Append(@, MkTemplate(502, "Read", "weekly"))]

InitEditFrame == InitEnv(EditFrameStore, Absent, FALSE, <<>>)

NextEditFrame ==
  \/ Mount
  \/ \E id \in IdsOf(state.boards) : handleOpenBoard(id)
  \/ handleEnterRearrange
  \/ handleCancelRearrange
  \/ \E goalId \in FirstTileIds : handleEditGoal(goalId)
  \/ \E value \in EditTexts : onEditGoalChange(value)
  \/ onCancelGoalEdit
  \/ handleApplyGoalEdit
  \/ \E mode \in {"new", "update", "skip"} : handleSaveEditedGoal(mode)

SpecEditFrame == InitEditFrame /\ [][NextEditFrame]_vars

\* C37: applying a text edit leaves the custom library and every other board
\* as they were and changes, on the current board, the text of the edited
\* goal only; then 'new' appends one template with the text and frequency of
\* the edit, 'update' retypes the template whose id is the goal's
\* sourceGoalId and no other, 'skip' changes no template, and each of the
\* three leaves the boards as they were and clears the pending prompt.
C37_EditChangesOneGoal ==
  [][ /\ (handleApplyGoalEdit
            /\ FindGoal(board[1].goals, state.editGoalModal[1].goalId) # <<>>) =>
           /\ state'.customGoals = state.customGoals
           /\ state'.currentBoardId = state.currentBoardId
           /\ Len(state'.boards) = Len(state.boards)
           /\ \A b \in DOMAIN state.boards :
                IF state.boards[b].id # state.currentBoardId
                THEN state'.boards[b] = state.boards[b]
                ELSE /\ [state'.boards[b] EXCEPT !.goals = <<>>]
                          = [state.boards[b] EXCEPT !.goals = <<>>]
                     /\ Len(state'.boards[b].goals) = Len(state.boards[b].goals)
                     /\ \A g \in DOMAIN state.boards[b].goals :
                          LET old == state.boards[b].goals[g]
                          IN state'.boards[b].goals[g] =
                               IF old.id = state.editGoalModal[1].goalId
                               THEN [old EXCEPT !.text = Trim(state.editGoalModal[1].text)]
                               ELSE old
           /\ state'.pendingGoalSave # <<>>
      /\ \A mode \in {"new", "update", "skip"} :
           handleSaveEditedGoal(mode) =>
             LET pending == state.pendingGoalSave[1]
             IN /\ state'.pendingGoalSave = <<>>
                /\ state'.boards = state.boards
                /\ mode = "skip" => state'.customGoals = state.customGoals
                /\ mode = "new" =>
                     /\ Len(state'.customGoals) = Len(state.customGoals) + 1
                     /\ SubSeq(state'.customGoals, 1, Len(state.customGoals))
                          = state.customGoals
                     /\ state'.customGoals[Len(state'.customGoals)].text = pending.text
                     /\ state'.customGoals[Len(state'.customGoals)].frequency
                          = pending.frequency
                     /\ state'.customGoals[Len(state'.customGoals)].id
                          \notin IdsOf(state.customGoals)
                /\ mode = "update" =>
                     /\ Len(state'.customGoals) = Len(state.customGoals)
                     /\ \A i \in DOMAIN state.customGoals :
                          state'.customGoals[i] =
                            IF state.customGoals[i].id = pending.sourceGoalId
                            THEN [state.customGoals[i] EXCEPT !.text = pending.text]
                            ELSE state.customGoals[i]
    ]_vars

\* the first goal of the first board was retyped and its template updated,
\* then the first goal of the second board was retyped and saved as a new
\* template: the other template and the other goals are as they were
C37_Witness ==
  /\ Len(state.customGoals) = 3 /\ state.customGoals[1].id = 501
  /\ state.customGoals[1].text = "Stretch" /\ state.customGoals[2].text = "Read"
  /\ state.customGoals[3].text = "Stretch"
  /\ state.pendingGoalSave = <<>>
  /\ state.currentBoardId = 12
  /\ state.boards[1].goals[1].text = "Stretch" /\ state.boards[2].goals[1].text = "Stretch"
  /\ state.boards[1].goals[2].text = "Cook" /\ state.boards[2].goals[2].text = "Cook"

\* ---------------------------------------------- ids of the recent pool
\* a history in which the goal made from the custom goal 501 was retyped on
\* the newer board: two goal keys, one sourceGoalId
RetypedNewerBoard ==
  MkBoard(21, "Goal Bingo", 21,
          [i \in 1..9 |->
             CASE i = 1 -> MkGoal(2101, "Stretch", "weekly", FALSE, <<>>, 501)
               [] i = 2 -> MkGoal(2102, "Read", "weekly", FALSE, <<>>, Null)
               [] OTHER -> MkGoal(2100 + i, "", "weekly", FALSE, <<>>, Null)] \o <<>>,
          3, FALSE)
RetypedOlderBoard ==
  MkBoard(20, "Goal Bingo", 20,
          [i \in 1..9 |->
             CASE i = 1 -> MkGoal(2001, "Cook", "weekly", FALSE, <<>>, 501)
               [] i = 2 -> MkGoal(2002, "Run", "weekly", FALSE, <<>>, Null)
               [] OTHER -> MkGoal(2000 + i, "", "weekly", FALSE, <<>>, Null)] \o <<>>,
          3, FALSE)
RecentIds == {"recent-501", "recent-weekly%3Aread", "recent-weekly%3Arun"}

InitRecentIds == InitEnv(Absent, Absent, FALSE, <<>>)

NextRecentIds ==
  \/ MountLibrary(<< RetypedNewerBoard, RetypedOlderBoard >>, "weekly", <<>>)
  \/ \E value \in {"weekly", "monthly"} : GenerationFrequencyProp(value)
  \/ \E b \in 1..2, g \in ToggledTiles : BoardsProp(b, g)
  \/ \E id \in RecentIds : handleToggleRecentSelection(id)

SpecRecentIds == InitRecentIds /\ [][NextRecentIds]_vars

\* recentChecked, as the indices of the pool
RecentCheckedOf(l) ==
  {i \in DOMAIN l.recentIncompleteAvailable :
     l.recentIncompleteAvailable[i].id \in l.selectedRecentIds}

\* C38: the entries of the recently-incomplete pool have pairwise distinct
\* ids, and a toggle of a recent entry checks or unchecks at most one entry
\* of the pool.
C38_PoolIdsDistinct ==
  /\ [](lib.mounted =>
          \A i, j \in DOMAIN lib.recentIncompleteAvailable :
            i # j => lib.recentIncompleteAvailable[i].id # lib.recentIncompleteAvailable[j].id)
  /\ [][ \A id \in RecentIds :
           handleToggleRecentSelection(id) =>
             Cardinality((RecentCheckedOf(lib') \ RecentCheckedOf(lib))
                         \cup (RecentCheckedOf(lib) \ RecentCheckedOf(lib'))) <= 1
     ]_vars

====
